---- MODULE Spec2Model ----
(***************************************************************************)
(* Model of the cache store (src/api/cacheManager.js), the fetch gateway   *)
(* (src/api/apiClient.js) and the search engine                            *)
(* (src/search/searchEngine.js) of opengovdatahub-backend.                 *)
(*                                                                         *)
(* Time is Date.now() in milliseconds.  A synchronous handler reads the    *)
(* clock once: the model gives every Date.now() of one handler the same    *)
(* value `now`.  JSON payloads are represented by their JSON text, the     *)
(* JavaScript value null by the text "null".                               *)
(***************************************************************************)
EXTENDS Integers, Sequences, FiniteSets, TLC

VARIABLES
    now,            \* Date.now()
    cache,          \* CacheManager.cache: entries in property (insertion) order
    disk,           \* CACHE_FILE: what is there, and the members of its JSON
    host,           \* whether CACHE_FILE can be written, and the process
    requestCount,   \* ApiClient.requestCount
    windowStart,    \* ApiClient.windowStart
    calls,          \* fetchWithCache invocations, each with its position
    started,        \* number of operations started so far
    ticks,          \* number of clock advances so far
    budget,         \* the operations and the clock advances a run may take
    index,          \* SearchEngine.index: terms in property order, with postings
    indexDisk,      \* contents of SEARCH_INDEX_FILE
    lastBuilt,      \* SearchEngine.lastBuilt
    lastQuery,      \* observation: the search engine operation completed last
    builtFrom,      \* observation: the store the last rebuildIndex() read
    last,           \* observation: the cache operation completed last
    written,        \* observation: per key, the last set() not yet deleted/cleared
    sizeEvicted,    \* observation: keys evicted for size since their last set()
    lastRead,       \* observation: key and time of the last get() that returned an entry
    lastWrite,      \* observation: the last operation whose snapshot write failed
    lastCall,       \* observation: the gateway call completed last
    admitTimes,     \* observation: times of the admitted external calls
    checksInWindow, \* observation: rate-limit checks since the last window reset
    lastCheck,      \* observation: the last run of enforceRateLimit, if no older
                    \* than a window, and the rejection right before it
    users,          \* contents of USERS_FILE: the users in array order
    verificationTokens, \* contents of VERIFICATION_TOKENS_FILE, in array order
    authCalls,      \* createUser and resetPassword invocations awaiting their hash
    authObs         \* observation: the account operation completed last, the
                    \* registrations that succeeded, the handlers run per user,
                    \* the tokens issued and the tokens used or replaced

vars == <<now, cache, disk, host, lastWrite, requestCount, windowStart, calls, started, ticks,
          budget, index, indexDisk, lastBuilt, lastQuery, builtFrom, last, written, sizeEvicted, lastRead, lastCall, admitTimes,
          checksInWindow, lastCheck, users, verificationTokens, authCalls, authObs>>

cacheVars == <<cache, disk>>
rateVars == <<requestCount, windowStart>>
cacheObs == <<last, written, sizeEvicted, lastRead, lastWrite>>
runVars == <<now, ticks, budget, host>>
gatewayObs == <<lastCall, admitTimes, checksInWindow, lastCheck>>
searchVars == <<index, indexDisk, lastBuilt, lastQuery, builtFrom>>
authVars == <<users, verificationTokens, authCalls, authObs>>

-----------------------------------------------------------------------------
(* Program constants                                                       *)

\* parseInt(process.env.CACHE_TTL) || 3600
CACHE_TTL == 3600

\* parseInt(process.env.CACHE_MAX_SIZE) || 1000, here run with CACHE_MAX_SIZE=2
CACHE_MAX_SIZE == 2

\* parseInt(process.env.EXTERNAL_API_RATE_LIMIT) || 100, here run with
\* EXTERNAL_API_RATE_LIMIT=2
API_RATE_LIMIT == 2

\* this.windowSize = 60000
windowSize == 60000

\* the factor of isExpired: ttl is in seconds, the clock in milliseconds
MsPerSecond == 1000

\* `options.cacheTTL || 3600` in fetchWithCache
DefaultFetchTTL == 3600

\* The JavaScript values null and undefined
JsNull == "null"
JsUndefined == "undefined"

-----------------------------------------------------------------------------
(* Bounds of the model                                                     *)

MaxCacheTicks == 2
MaxOps == 5
MaxTicks == 1
MaxStarts == 2
MaxRateTicks == 3
MaxRateStarts == 6

-----------------------------------------------------------------------------
(* CacheManager                                                            *)

isExpired_ge(t, timestamp, ttl) == t - timestamp >= ttl * MsPerSecond

isExpired_defaultTtl(t, timestamp, ttl) == t - timestamp > CACHE_TTL * MsPerSecond

\* isExpired(timestamp, ttl): Date.now() - timestamp > ttl * 1000
isExpired(t, timestamp, ttl) == t - timestamp > ttl * MsPerSecond

\* this.cache[key]: the index of the entry, 0 when the key is not a property
IndexOf(c, key) ==
    IF \E i \in 1..Len(c) : c[i].key = key
    THEN CHOOSE i \in 1..Len(c) : c[i].key = key
    ELSE 0

HasKey(c, key) == IndexOf(c, key) # 0

KeysOf(c) == {c[i].key : i \in 1..Len(c)}

EntriesOf(c) == {c[i] : i \in 1..Len(c)}

\* delete this.cache[key]
RemoveKeys(c, ks) == SelectSeq(c, LAMBDA e : e.key \notin ks)

\* JSON.stringify of one entry: a property that holds undefined is left out
itemJson(e) ==
    IF e.data = JsUndefined
    THEN [timestamp |-> e.timestamp, lastAccessed |-> e.lastAccessed,
          ttl |-> e.ttl, source |-> e.source]
    ELSE [data |-> e.data, timestamp |-> e.timestamp,
          lastAccessed |-> e.lastAccessed, ttl |-> e.ttl, source |-> e.source]

\* a snapshot that forgets the reads: lastAccessed as it was at the write
saveCache_written(c) ==
    [kind |-> "json",
     members |-> [i \in 1..Len(c) |->
        [name |-> c[i].key,
         value |-> itemJson([c[i] EXCEPT !.lastAccessed = c[i].timestamp])]]]

\* the text saveCache() writes: JSON.stringify(this.cache), the members of
\* the object in the order of its keys
saveCache(c) ==
    [kind |-> "json",
     members |-> [i \in 1..Len(c) |-> [name |-> c[i].key, value |-> itemJson(c[i])]]]

\* what can be at CACHE_FILE besides JSON text: nothing, a file that
\* readFileSync cannot read, a file that JSON.parse cannot parse
NoFile == [kind |-> "missing", members |-> <<>>]
Unreadable == [kind |-> "unreadable", members |-> <<>>]
Garbled == [kind |-> "garbled", members |-> <<>>]

\* a saveCache() that lets the error of writeFileSync through
trySave_uncaught(file, c) ==
    [file |-> IF host.writable THEN saveCache(c) ELSE file,
     raised |-> ~host.writable]

\* saveCache() with its try/catch: the file afterwards; a failed write is
\* logged and raises nothing
trySave(file, c) ==
    [file |-> IF host.writable THEN saveCache(c) ELSE file, raised |-> FALSE]

\* loadCache() raises: the file is missing and '{}' cannot be written, which
\* happens outside the try block
loadRaises(file) == file.kind = "missing" /\ ~host.writable

\* loadCache(): {} for a missing file and for a file that cannot be read or
\* parsed, else JSON.parse of the file; a member without data reads undefined
loadCache(file) ==
    IF file.kind # "json" THEN <<>>
    ELSE [i \in 1..Len(file.members) |->
            LET value == file.members[i].value
            IN [key |-> file.members[i].name,
                data |-> IF "data" \in DOMAIN value THEN value.data ELSE JsUndefined,
                timestamp |-> value.timestamp, lastAccessed |-> value.lastAccessed,
                ttl |-> value.ttl, source |-> value.source]]

\* the file after loadCache(): '{}' is written where no file was
loadedFile(file) ==
    IF file.kind = "missing" /\ host.writable THEN saveCache(<<>>) ELSE file

InsertByTimestamp(s, e) ==
    LET before == SelectSeq(s, LAMBDA x : x.timestamp <= e.timestamp)
        after == SelectSeq(s, LAMBDA x : x.timestamp > e.timestamp)
    IN before \o <<e>> \o after

\* Array.prototype.sort with (a, b) => a.lastAccessed - b.lastAccessed is
\* stable: an entry goes behind every entry that does not compare greater.
InsertByLastAccessed(s, e) ==
    LET before == SelectSeq(s, LAMBDA x : x.lastAccessed <= e.lastAccessed)
        after == SelectSeq(s, LAMBDA x : x.lastAccessed > e.lastAccessed)
    IN before \o <<e>> \o after

RECURSIVE SortByLastAccessed(_)
SortByLastAccessed(s) ==
    IF s = <<>> THEN <<>>
    ELSE InsertByLastAccessed(SortByLastAccessed(SubSeq(s, 1, Len(s) - 1)), s[Len(s)])

\* cleanup(), first loop: the keys of the expired entries
ExpiredKeys(c, t) ==
    {c[i].key : i \in {j \in 1..Len(c) : isExpired(t, c[j].timestamp, c[j].ttl)}}

\* cleanup(), second part: the keys removed to enforce CACHE_MAX_SIZE
SizeVictims(remaining) ==
    IF Len(remaining) > CACHE_MAX_SIZE
    THEN LET sorted == SortByLastAccessed(remaining)
             itemsToRemove == Len(remaining) - CACHE_MAX_SIZE
         IN {sorted[i].key : i \in 1..itemsToRemove}
    ELSE {}

\* cleanup(): the store after both passes
cleanup(c, t) ==
    LET remaining == RemoveKeys(c, ExpiredKeys(c, t))
    IN RemoveKeys(remaining, SizeVictims(remaining))

\* the entry object written by set()
NewEntry(key, data, ttl, t) ==
    [key |-> key, data |-> data, timestamp |-> t, lastAccessed |-> t,
     ttl |-> ttl, source |-> "api"]

\* set(key, data, ttl): cleanup(), then this.cache[key] = {...}; an existing
\* property keeps its place, a new one goes last
cacheSet(c, key, data, ttl, t) ==
    LET c1 == cleanup(c, t)
        i == IndexOf(c1, key)
    IN IF i = 0
       THEN Append(c1, NewEntry(key, data, ttl, t))
       ELSE [c1 EXCEPT ![i] = NewEntry(key, data, ttl, t)]

\* get(key): the store afterwards
cacheGetStore(c, key, t) ==
    LET i == IndexOf(c, key)
    IN IF i = 0 THEN c
       ELSE IF isExpired(t, c[i].timestamp, c[i].ttl)
            THEN RemoveKeys(c, {key})
            ELSE [c EXCEPT ![i].lastAccessed = t]

\* get(key): the value returned
cacheGetValue(c, key, t) ==
    LET i == IndexOf(c, key)
    IN IF i = 0 THEN JsNull
       ELSE IF isExpired(t, c[i].timestamp, c[i].ttl)
            THEN JsNull
            ELSE c[i].data

cacheDelete_noop(c, key) == c

\* delete(key)
cacheDelete(c, key) == RemoveKeys(c, {key})

\* getStats(): totalItems and expiredItems
getStats(c, t) ==
    [totalItems |-> Len(c),
     expiredItems |-> Cardinality({i \in 1..Len(c) :
                          isExpired(t, c[i].timestamp, c[i].ttl)}),
     maxSize |-> CACHE_MAX_SIZE,
     defaultTTL |-> CACHE_TTL]

-----------------------------------------------------------------------------
(* CacheManager.generateKey.  A params object is the sequence of its       *)
(* <<name, value>> properties in insertion order.                          *)

\* the parameter names that occur, in the order of Array.prototype.sort()
\* (by UTF-16 code units)
NameOrder == <<"cacheTTL", "categories", "dataset", "date", "end_date", "geometry",
               "lat", "lng", "q", "rows", "start", "start_date">>

Rank(name) == CHOOSE i \in 1..Len(NameOrder) : NameOrder[i] = name

\* Object.keys(params).sort(): insertion sort of the properties by name
InsertByName(s, p) ==
    LET before == SelectSeq(s, LAMBDA x : Rank(x[1]) <= Rank(p[1]))
        after == SelectSeq(s, LAMBDA x : Rank(x[1]) > Rank(p[1]))
    IN before \o <<p>> \o after

\* the properties in the order of their insertion
SortByName_asInserted(params) == params

RECURSIVE SortByName(_)
SortByName(params) ==
    IF params = <<>> THEN <<>>
    ELSE InsertByName(SortByName(SubSeq(params, 1, Len(params) - 1)),
                      params[Len(params)])

\* .map(key => `${key}=${params[key]}`).join('&')
RECURSIVE JoinParams(_)
JoinParams(sorted) ==
    IF sorted = <<>> THEN ""
    ELSE IF Len(sorted) = 1 THEN sorted[1][1] \o "=" \o sorted[1][2]
    ELSE sorted[1][1] \o "=" \o sorted[1][2] \o "&" \o JoinParams(Tail(sorted))

\* generateKey(url, params)
generateKey(url, params) ==
    LET sortedParams == JoinParams(SortByName(params))
    IN IF sortedParams # "" THEN url \o "?" \o sortedParams ELSE url

-----------------------------------------------------------------------------
(* ApiClient                                                               *)

\* JavaScript truthiness of a payload, given as JSON text
Truthy(v) == v \notin {JsNull, JsUndefined, "0", "false", "\"\""}

\* JavaScript truthiness of a request parameter (a string or undefined)
TruthyParam(v) == v \notin {JsUndefined, ""}

windowElapsed_noSize(t, ws) == t - ws > 0

\* enforceRateLimit(): now - this.windowStart > this.windowSize
windowElapsed(t, ws) == t - ws > windowSize

rateLimitExceeded_gt(count) == count > API_RATE_LIMIT

\* enforceRateLimit(): this.requestCount >= API_RATE_LIMIT
rateLimitExceeded(count) == count >= API_RATE_LIMIT

\* enforceRateLimit(): waitTime = this.windowSize - (now - this.windowStart)
waitTime(t, ws) == windowSize - (t - ws)

\* enforceRateLimit(): Math.ceil(waitTime / 1000), the seconds of the message
\* (waitTime is never negative)
retrySeconds(w) == (w + MsPerSecond - 1) \div MsPerSecond

\* fetchWithCache: cachedData && !options.forceRefresh
cacheHit(cachedData, forceRefresh) == Truthy(cachedData) /\ ~forceRefresh

\* fetchWithCache, catch: cachedData && options.allowStale
staleFallback(cachedData, allowStale) == Truthy(cachedData) /\ allowStale

\* fetchWithCache: options.cacheTTL || 3600 (an absent cacheTTL is 0 here)
fetchTtl(cacheTTL) == IF cacheTTL # 0 THEN cacheTTL ELSE DefaultFetchTTL

CrimeUrl == "https://data.police.uk/api/crimes-street/all-crime"
PlanningUrl == "https://www.planning.data.gov.uk/entity"
SpendingUrl == "https://opendata.bristol.gov.uk/api/records/1.0/search/"
PostcodeBase == "https://api.postcodes.io/postcodes"

CrimeTTL == 3600
PlanningTTL == 1800
SpendingTTL == 3600
PostcodeTTL == 86400

\* fetchCrimeData: queryParams of params {lat, lng, date}
crimeQuery(in) ==
    (IF TruthyParam(in.lat) /\ TruthyParam(in.lng)
     THEN <<<<"lat", in.lat>>, <<"lng", in.lng>>>> ELSE <<>>)
    \o (IF TruthyParam(in.date) THEN <<<<"date", in.date>>>> ELSE <<>>)

\* fetchPlanningData: queryParams of params {geometry, categories, start_date,
\* end_date}
planningQuery(in) ==
    (IF TruthyParam(in.geometry) THEN <<<<"geometry", in.geometry>>>> ELSE <<>>)
    \o (IF TruthyParam(in.categories) THEN <<<<"categories", in.categories>>>> ELSE <<>>)
    \o (IF TruthyParam(in.start_date) THEN <<<<"start_date", in.start_date>>>> ELSE <<>>)
    \o (IF TruthyParam(in.end_date) THEN <<<<"end_date", in.end_date>>>> ELSE <<>>)

\* fetchCouncilSpending: queryParams of params {dataset, q, rows, start}
spendingQuery(in) ==
    << <<"dataset", IF TruthyParam(in.dataset) THEN in.dataset
                    ELSE "payments-to-suppliers">>,
       <<"q", IF TruthyParam(in.q) THEN in.q ELSE "">>,
       <<"rows", IF in.rows = JsUndefined THEN "20" ELSE in.rows>>,
       <<"start", IF in.start = JsUndefined THEN "0" ELSE in.start>> >>

\* fetchPostcodeData: postcode.replace(/\s+/g, ''), the postcode given as the
\* sequence of its characters
RECURSIVE Concat(_)
Concat(chars) ==
    IF chars = <<>> THEN ""
    ELSE IF Len(chars) = 1 THEN chars[1]
    ELSE LET half == Len(chars) \div 2
         IN Concat(SubSeq(chars, 1, half))
            \o Concat(SubSeq(chars, half + 1, Len(chars)))

cleanPostcode(chars) == Concat(SelectSeq(chars, LAMBDA ch : ch \notin {" ", "\t"}))

postcodeUrl(chars) == PostcodeBase \o "/" \o cleanPostcode(chars)

\* the cache keys under which documents are searched, each with its
\* characters
CrimeKeyChars == <<"c", "r", "i", "m", "e", "s", "?", "l", "a", "t", "=",
                   "5", "1", ".", "5">>
NotesKeyChars == <<"n", "o", "t", "e", "s">>
SpendingKeyChars == <<"s", "p", "e", "n", "d", "i", "n", "g">>
PlanningKeyChars == <<"p", "l", "a", "n", "n", "i", "n", "g", "?", "i", "d", "=", "1">>
PlanningUrlChars ==
    <<"h", "t", "t", "p", "s", ":", "/", "/", "w", "w", "w", ".",
      "p", "l", "a", "n", "n", "i", "n", "g", ".", "d", "a", "t", "a", ".",
      "g", "o", "v", ".", "u", "k", "/", "e", "n", "t", "i", "t", "y">>

\* the keys of fetchCrimeData({lat: 51.5, lng: -0.1}), of
\* fetchCouncilSpending({}) and of
\* fetchCouncilSpending({dataset: "council-spending"})
CrimeFetchChars ==
    <<"h", "t", "t", "p", "s", ":", "/", "/", "d", "a", "t", "a", ".", "p",
      "o", "l", "i", "c", "e", ".", "u", "k", "/", "a", "p", "i", "/", "c",
      "r", "i", "m", "e", "s", "-", "s", "t", "r", "e", "e", "t", "/", "a",
      "l", "l", "-", "c", "r", "i", "m", "e", "?", "l", "a", "t", "=", "5",
      "1", ".", "5", "&", "l", "n", "g", "=", "-", "0", ".", "1">>
SpendingFetchChars ==
    <<"h", "t", "t", "p", "s", ":", "/", "/", "o", "p", "e", "n", "d", "a",
      "t", "a", ".", "b", "r", "i", "s", "t", "o", "l", ".", "g", "o", "v",
      ".", "u", "k", "/", "a", "p", "i", "/", "r", "e", "c", "o", "r", "d",
      "s", "/", "1", ".", "0", "/", "s", "e", "a", "r", "c", "h", "/", "?",
      "d", "a", "t", "a", "s", "e", "t", "=", "p", "a", "y", "m", "e", "n",
      "t", "s", "-", "t", "o", "-", "s", "u", "p", "p", "l", "i", "e", "r",
      "s", "&", "q", "=", "&", "r", "o", "w", "s", "=", "2", "0", "&", "s",
      "t", "a", "r", "t", "=", "0">>
CouncilSpendingFetchChars ==
    <<"h", "t", "t", "p", "s", ":", "/", "/", "o", "p", "e", "n", "d", "a",
      "t", "a", ".", "b", "r", "i", "s", "t", "o", "l", ".", "g", "o", "v",
      ".", "u", "k", "/", "a", "p", "i", "/", "r", "e", "c", "o", "r", "d",
      "s", "/", "1", ".", "0", "/", "s", "e", "a", "r", "c", "h", "/", "?",
      "d", "a", "t", "a", "s", "e", "t", "=", "c", "o", "u", "n", "c", "i",
      "l", "-", "s", "p", "e", "n", "d", "i", "n", "g", "&", "q", "=", "&",
      "r", "o", "w", "s", "=", "2", "0", "&", "s", "t", "a", "r", "t", "=",
      "0">>

KeyTexts == {CrimeKeyChars, NotesKeyChars, SpendingKeyChars, PlanningKeyChars,
             PlanningUrlChars, CrimeFetchChars, SpendingFetchChars,
             CouncilSpendingFetchChars}

KeyStrings == [chars \in KeyTexts |-> Concat(chars)]
SearchKeys == {KeyStrings[chars] : chars \in KeyTexts}

\* the characters of a cache key of the model
keyChars(key) == CHOOSE chars \in KeyTexts : KeyStrings[chars] = key

-----------------------------------------------------------------------------
(* Inputs of the cache operations                                          *)

CacheKeys == {"k1", "k2", "k3"}
\* set(key, data, ttl) with a ttl of one second, and set(key, data) with the
\* default ttl
SetInputs == {<<"{\"a\":1}", 1>>, <<"[2]", CACHE_TTL>>}
CacheSteps == {1000}

NoEntry == [key |-> "", data |-> JsNull, timestamp |-> 0, lastAccessed |-> 0,
            ttl |-> 0, source |-> ""]
NoWrite == [isSet |-> FALSE, v |-> JsNull, ttl |-> 0, at |-> 0]
NoRead == [key |-> "", at |-> 0]
NoFailure == [failed |-> FALSE, raised |-> FALSE, seq |-> 0, before |-> <<>>,
              data |-> JsNull, ttl |-> 0]
NoOp == [op |-> "none", key |-> "", ret |-> JsNull, at |-> 0, had |-> FALSE,
         entry |-> NoEntry, preTotal |-> 0, evicted |-> {}, survivors |-> {}]

\* the entries cleanup() removes for size
EvictedBy(c, t) ==
    LET remaining == RemoveKeys(c, ExpiredKeys(c, t))
    IN {e \in EntriesOf(remaining) : e.key \in SizeVictims(remaining)}

EvictedKeys(c, t) == {e.key : e \in EvictedBy(c, t)}

\* what an operation on key found in store c at time t, and what it returned
Observe(op, key, ret, c, t, evicted, survivors) ==
    [op |-> op, key |-> key, ret |-> ret, at |-> t, had |-> HasKey(c, key),
     entry |-> IF HasKey(c, key) THEN c[IndexOf(c, key)] ELSE NoEntry,
     preTotal |-> getStats(c, t).totalItems,
     evicted |-> evicted, survivors |-> survivors]

\* the record of an operation that wrote the snapshot: kept when the write
\* failed, with the store before the operation and the arguments of a set
WriteObserved(raised, before, data, ttl) ==
    IF host.writable THEN NoFailure
    ELSE [failed |-> TRUE, raised |-> raised, seq |-> started + 1,
          before |-> before, data |-> data, ttl |-> ttl]

\* the writes whose ttl has not run out at time t
StillOpen(w, t) ==
    [k \in DOMAIN w |->
        IF w[k].isSet /\ t - w[k].at <= w[k].ttl * MsPerSecond THEN w[k] ELSE NoWrite]

-----------------------------------------------------------------------------
(* Cache operations                                                        *)

\* get(key)
Get(key) ==
    LET save == trySave(disk, cacheGetStore(cache, key, now))
    IN /\ host.process = "up"
       /\ started < budget.ops
       /\ started' = started + 1
       /\ cache' = cacheGetStore(cache, key, now)
       /\ disk' = IF HasKey(cache, key) THEN save.file ELSE disk
       /\ last' = Observe("get", key, cacheGetValue(cache, key, now), cache, now,
                          {}, {})
       /\ lastRead' = IF HasKey(cache', key) THEN [key |-> key, at |-> now]
                      ELSE lastRead
       /\ lastWrite' = IF HasKey(cache, key)
                       THEN WriteObserved(save.raised, cache, JsNull, 0)
                       ELSE NoFailure
       /\ UNCHANGED <<runVars, authVars, searchVars, written, sizeEvicted, rateVars, calls,
                      gatewayObs>>

\* set(key, data, ttl): cleanup() saves, then the entry is assigned and
\* saved; a save that raised in cleanup() would leave set before the
\* assignment
Set(key, data, ttl) ==
    LET c1 == cleanup(cache, now)
        save1 == trySave(disk, c1)
        c2 == cacheSet(cache, key, data, ttl, now)
        save2 == trySave(save1.file, c2)
    IN /\ host.process = "up"
       /\ started < budget.ops
       /\ started' = started + 1
       /\ cache' = IF save1.raised THEN c1 ELSE c2
       /\ disk' = IF save1.raised THEN save1.file ELSE save2.file
       /\ last' = Observe("set", key, JsUndefined, cache, now, EvictedBy(cache, now),
                          EntriesOf(cleanup(cache, now)))
       /\ written' = [written EXCEPT
                         ![key] = [isSet |-> TRUE, v |-> data, ttl |-> ttl, at |-> now]]
       /\ sizeEvicted' = (sizeEvicted \cup EvictedKeys(cache, now)) \ {key}
       /\ lastWrite' = WriteObserved(save1.raised \/ save2.raised, cache, data, ttl)
       /\ UNCHANGED <<runVars, authVars, searchVars, lastRead, rateVars, calls, gatewayObs>>

\* cleanup()
Cleanup ==
    LET save == trySave(disk, cleanup(cache, now))
    IN /\ host.process = "up"
       /\ started < budget.ops
       /\ started' = started + 1
       /\ cache' = cleanup(cache, now)
       /\ disk' = save.file
       /\ last' = Observe("cleanup", "", JsUndefined, cache, now,
                          EvictedBy(cache, now), EntriesOf(cache'))
       /\ sizeEvicted' = sizeEvicted \cup EvictedKeys(cache, now)
       /\ lastWrite' = WriteObserved(save.raised, cache, JsNull, 0)
       /\ UNCHANGED <<runVars, authVars, searchVars, written, lastRead, rateVars, calls,
                      gatewayObs>>

\* delete(key)
Delete(key) ==
    LET save == trySave(disk, cacheDelete(cache, key))
    IN /\ host.process = "up"
       /\ started < budget.ops
       /\ started' = started + 1
       /\ cache' = cacheDelete(cache, key)
       /\ disk' = save.file
       /\ last' = Observe("delete", key, JsUndefined, cache, now, {}, {})
       /\ written' = [written EXCEPT ![key] = NoWrite]
       /\ sizeEvicted' = sizeEvicted \ {key}
       /\ lastWrite' = WriteObserved(save.raised, cache, JsNull, 0)
       /\ UNCHANGED <<runVars, authVars, searchVars, lastRead, rateVars, calls, gatewayObs>>

\* clear()
Clear ==
    LET save == trySave(disk, <<>>)
    IN /\ host.process = "up"
       /\ started < budget.ops
       /\ started' = started + 1
       /\ cache' = <<>>
       /\ disk' = save.file
       /\ last' = Observe("clear", "", JsUndefined, cache, now, {}, {})
       /\ written' = [k \in DOMAIN written |-> NoWrite]
       /\ sizeEvicted' = {}
       /\ lastWrite' = WriteObserved(save.raised, cache, JsNull, 0)
       /\ UNCHANGED <<runVars, authVars, searchVars, lastRead, rateVars, calls, gatewayObs>>

-----------------------------------------------------------------------------
(* The cache store on its own: every public operation, any key and value   *)

\* the calls that can be in flight at once
CallIds == {1, 2}

IdleCall == [pc |-> "idle", op |-> "none", url |-> "", params |-> <<>>,
             key |-> "", cacheTTL |-> 0,
             forceRefresh |-> FALSE, allowStale |-> FALSE, cachedData |-> JsNull,
             pre |-> "none", preData |-> JsNull, removed |-> FALSE, nth |-> 0,
             sent |-> FALSE, rejected |-> FALSE]
NoRejection == [rejected |-> FALSE, at |-> 0, waitTime |-> 0]
NoCheck == [checked |-> FALSE, at |-> 0, windowStart |-> 0, requestCount |-> 0,
            admitted |-> FALSE, waitTime |-> 0, seconds |-> 0,
            before |-> NoRejection]
\* the account calls that can await their hash at once
AuthCallIds == {1, 2}

\* a verification-token file record: { userId, email, token, type? }
NoToken == [payload |-> [userId |-> 0, email |-> "", type |-> JsUndefined],
            iat |-> 0, exp |-> 0]
NoAuthOp == [op |-> "none", ok |-> FALSE, id |-> 0, email |-> "",
             token |-> NoToken, verifiedBefore |-> FALSE, resetBefore |-> FALSE,
             replacedBefore |-> FALSE, spentBefore |-> FALSE,
             storedBefore |-> FALSE, storedAfter |-> FALSE, resetsKept |-> TRUE,
             before |-> 0, after |-> 0, limit |-> 0, status |-> 0, ran |-> FALSE]
IdleAuthCall == [pc |-> "idle", op |-> "none", at |-> 0, nth |-> 0, users |-> <<>>,
                 email |-> "", password |-> "", token |-> NoToken,
                 overlapped |-> {}, seen |-> NoAuthOp]
NoAuthObs == [last |-> NoAuthOp, created |-> {}, runs |-> <<>>, issued |-> {},
              verified |-> {}, wasReset |-> {}, replaced |-> {}, spent |-> {}]

NoCall == [call |-> IdleCall, outcome |-> "none", ret |-> JsNull, err |-> "none",
           response |-> JsUndefined, stored |-> NoEntry]

\* the fields of the three objects as their constructors leave them when no
\* file is found
Blank ==
    /\ now = 0
    /\ cache = <<>>
    /\ requestCount = 0
    /\ windowStart = now
    /\ calls = [c \in CallIds |-> IdleCall]
    /\ started = 0
    /\ ticks = 0
    /\ last = NoOp
    /\ written = [k \in CacheKeys \cup SearchKeys |-> NoWrite]
    /\ sizeEvicted = {}
    /\ lastRead = NoRead
    /\ lastWrite = NoFailure
    /\ lastCall = NoCall
    /\ admitTimes = <<>>
    /\ checksInWindow = 0
    /\ lastCheck = NoCheck
    /\ index = <<>>
    /\ indexDisk = <<>>
    /\ lastBuilt = [built |-> FALSE, at |-> 0]
    /\ lastQuery = [op |-> "none", seq |-> 0, at |-> 0, store |-> <<>>]
    /\ builtFrom = [called |-> FALSE, raised |-> FALSE, at |-> 0, store |-> <<>>,
                    inFlight |-> {}]
    /\ users = <<>>
    /\ verificationTokens = <<>>
    /\ authCalls = [p \in AuthCallIds |-> IdleAuthCall]
    /\ authObs = NoAuthObs

\* the state after construction: loadCache() and loadIndex() found no file
\* and wrote an empty one, requestCount = 0, windowStart = Date.now()
Start ==
    /\ Blank
    /\ host = [writable |-> TRUE, process |-> "up"]
    /\ disk = loadedFile(NoFile)

\* the times still within windowSize of time t
Recent(times, t) == SelectSeq(times, LAMBDA x : t - x <= windowSize)

\* the clock advances by d milliseconds
Tick(d) ==
    /\ ticks < budget.ticks
    /\ now' = now + d
    /\ ticks' = ticks + 1
    /\ written' = StillOpen(written, now')
    /\ sizeEvicted' = {k \in sizeEvicted : written'[k].isSet}
    /\ admitTimes' = Recent(admitTimes, now')
    /\ lastCheck' = IF now' - lastCheck.at > windowSize THEN NoCheck ELSE lastCheck
    /\ UNCHANGED <<cacheVars, rateVars, calls, started, budget, authVars, host, searchVars,
                   last, lastRead, lastWrite, lastCall, checksInWindow>>

InitCache == Start /\ budget = [ops |-> MaxOps, ticks |-> MaxCacheTicks]

NextCache ==
    \/ \E k \in CacheKeys : Get(k)
    \/ \E k \in CacheKeys, in \in SetInputs : Set(k, in[1], in[2])
    \/ Cleanup
    \/ \E k \in CacheKeys : Delete(k)
    \/ Clear
    \/ \E d \in CacheSteps : Tick(d)

SpecCache == InitCache /\ [][NextCache]_vars

-----------------------------------------------------------------------------
(* The cache store over the life of its process: the snapshot file may be  *)
(* missing or damaged at the start, and writes may fail                    *)

MaxLifecycleOps == 4
MaxLifecycleTicks == 1

LifecycleKeys == {"k1", "k2"}
LifecycleSetInputs == {<<"[2]", 1>>}
LifecycleSteps == {2000}

\* a snapshot left by an earlier process
SavedStore == <<NewEntry("k1", "{\"a\":1}", CACHE_TTL, 0)>>
FilesAtStart == {NoFile, Unreadable, Garbled, saveCache(SavedStore)}

\* new CacheManager(): this.cache = this.loadCache()
Construct ==
    /\ host.process = "down"
    /\ started < budget.ops
    /\ started' = started + 1
    /\ host' = [host EXCEPT !.process = IF loadRaises(disk) THEN "failed" ELSE "up"]
    /\ cache' = IF loadRaises(disk) THEN <<>> ELSE loadCache(disk)
    /\ disk' = loadedFile(disk)
    /\ last' = [NoOp EXCEPT !.op = "construct", !.ret = disk.kind, !.at = now]
    /\ lastWrite' = NoFailure
    /\ UNCHANGED <<now, ticks, budget, authVars, searchVars, written, sizeEvicted, lastRead,
                   rateVars, calls, gatewayObs>>

\* the process ends: the store in memory is gone, the file stays
Exit ==
    /\ host.process = "up"
    /\ started < budget.ops
    /\ started' = started + 1
    /\ host' = [host EXCEPT !.process = "down"]
    /\ cache' = <<>>
    /\ last' = [NoOp EXCEPT !.op = "exit", !.at = now]
    /\ written' = [k \in DOMAIN written |-> NoWrite]
    /\ sizeEvicted' = {}
    /\ lastRead' = NoRead
    /\ lastWrite' = NoFailure
    /\ UNCHANGED <<now, ticks, budget, authVars, disk, searchVars, rateVars, calls, gatewayObs>>

\* the file system starts or stops refusing writes (read-only mount, missing
\* directory, full disk)
Mount(writable) ==
    /\ host.writable # writable
    /\ host' = [host EXCEPT !.writable = writable]
    /\ UNCHANGED <<now, ticks, budget, authVars, cacheVars, started, searchVars, cacheObs,
                   rateVars, calls, gatewayObs>>

\* between two processes the file is removed or damaged
Damage(file) ==
    /\ host.process = "down"
    /\ started > 0
    /\ disk # file
    /\ disk' = file
    /\ UNCHANGED <<runVars, authVars, cache, started, searchVars, cacheObs, rateVars, calls,
                   gatewayObs>>

InitLifecycle ==
    /\ Blank
    /\ host \in [writable : BOOLEAN, process : {"down"}]
    /\ disk \in FilesAtStart
    /\ budget = [ops |-> MaxLifecycleOps, ticks |-> MaxLifecycleTicks]

NextLifecycle ==
    \/ Construct
    \/ Exit
    \/ \E writable \in BOOLEAN : Mount(writable)
    \/ \E file \in {NoFile, Unreadable, Garbled} : Damage(file)
    \/ \E k \in LifecycleKeys : Get(k)
    \/ \E k \in LifecycleKeys, in \in LifecycleSetInputs : Set(k, in[1], in[2])
    \/ Cleanup
    \/ \E k \in LifecycleKeys : Delete(k)
    \/ Clear
    \/ \E d \in LifecycleSteps : Tick(d)

\* The cache store from one process to the next
SpecLifecycle == InitLifecycle /\ [][NextLifecycle]_vars

-----------------------------------------------------------------------------
(* Inputs of the gateway operations                                        *)

CrimeInputs == {[lat |-> "51.5", lng |-> "-0.1", date |-> JsUndefined]}
PlanningInputs == {[geometry |-> JsUndefined, categories |-> JsUndefined,
                    start_date |-> JsUndefined, end_date |-> JsUndefined]}
SpendingInputs == {[dataset |-> JsUndefined, q |-> JsUndefined,
                    rows |-> JsUndefined, start |-> JsUndefined]}
Postcodes == {<<"E", "1", " ", "6", "A", "N">>}
RefreshInputs == {<<PlanningUrl, <<>> >>}
ProxyUrl == "https://example.org/api/items"
ProxyTTLs == {60}
Responses == {"[{\"id\":1}]", "0"}
GatewaySteps == {3600000}
RateResponses == {"[{\"id\":1}]"}
RateSteps == {30000}

\* what the store holds for key at time t: "none", "live" or "expired"
StateOf(c, key, t) ==
    LET i == IndexOf(c, key)
    IN IF i = 0 THEN "none"
       ELSE IF t - c[i].timestamp > c[i].ttl * 1000 THEN "expired" ELSE "live"

EntryAt(c, key) == IF HasKey(c, key) THEN c[IndexOf(c, key)] ELSE NoEntry

\* the lowest free call slot
FreeSlot(c) ==
    /\ calls[c].pc = "idle"
    /\ \A d \in CallIds : calls[d].pc = "idle" => c <= d

Completed(call, outcome, ret, err, response, c2) ==
    [call |-> call, outcome |-> outcome, ret |-> ret, err |-> err,
     response |-> response, stored |-> EntryAt(c2, call.key)]

-----------------------------------------------------------------------------
(* Gateway operations.  client.get() queues the request interceptor as a   *)
(* microtask, so it runs right after the synchronous part of               *)
(* fetchWithCache and before the handler of any other request (no handler  *)
(* starts a second call before it awaited the first): a call runs up to    *)
(* the sending of its request in one step, the arrival of the response or  *)
(* of the failure is a second step, and other calls may run in between.    *)

\* a catch block that reads the key again instead of using the value it
\* read before the request
Caught_reread(call, err, c2) ==
    IF staleFallback(EntryAt(c2, call.key).data, call.allowStale)
    THEN Completed(call, "stale", EntryAt(c2, call.key).data, err, JsUndefined, c2)
    ELSE Completed(call, "error", JsUndefined, err, JsUndefined, c2)

\* the catch block of fetchWithCache: the stale value, or the error
Caught(call, err, c2) ==
    IF staleFallback(call.cachedData, call.allowStale)
    THEN Completed(call, "stale", call.cachedData, err, JsUndefined, c2)
    ELSE Completed(call, "error", JsUndefined, err, JsUndefined, c2)

\* fetchWithCache(url, options) up to the sending of the request, entered
\* with store c0 (refreshCache deletes the key first); the request
\* interceptor is enforceRateLimit()
FetchWithCache(c, op, url, params, cacheTTL, forceRefresh, allowStale, c0) ==
    LET key == generateKey(url, params)
        cachedData == cacheGetValue(c0, key, now)
        c1 == cacheGetStore(c0, key, now)
        reset == windowElapsed(now, windowStart)
        count == IF reset THEN 0 ELSE requestCount
        nth == IF reset THEN 1 ELSE checksInWindow + 1
        call == [pc |-> "awaiting", op |-> op, url |-> url, params |-> params,
                 key |-> key,
                 cacheTTL |-> cacheTTL, forceRefresh |-> forceRefresh,
                 allowStale |-> allowStale, cachedData |-> cachedData,
                 pre |-> StateOf(cache, key, now),
                 preData |-> EntryAt(cache, key).data,
                 removed |-> ~HasKey(c0, key), nth |-> 0,
                 sent |-> FALSE, rejected |-> FALSE]
    IN /\ started < budget.ops
       /\ FreeSlot(c)
       /\ started' = started + 1
       /\ cache' = c1
       /\ disk' = IF HasKey(c0, key) \/ op = "refreshCache"
                  THEN trySave(disk, c1).file ELSE disk
       /\ IF cacheHit(cachedData, forceRefresh)
          THEN /\ lastCall' = Completed(call, "hit", cachedData, "none",
                                        JsUndefined, c1)
               /\ UNCHANGED <<calls, rateVars, admitTimes, checksInWindow, lastCheck>>
          ELSE /\ windowStart' = IF reset THEN now ELSE windowStart
               /\ checksInWindow' = nth
               /\ lastCheck' =
                     [checked |-> TRUE, at |-> now, windowStart |-> windowStart,
                      requestCount |-> requestCount,
                      admitted |-> ~rateLimitExceeded(count),
                      waitTime |-> IF rateLimitExceeded(count)
                                   THEN waitTime(now, windowStart') ELSE 0,
                      seconds |-> IF rateLimitExceeded(count)
                                  THEN retrySeconds(waitTime(now, windowStart'))
                                  ELSE 0,
                      before |-> IF lastCheck.checked /\ ~lastCheck.admitted
                                 THEN [rejected |-> TRUE, at |-> lastCheck.at,
                                       waitTime |-> lastCheck.waitTime]
                                 ELSE NoRejection]
               /\ IF rateLimitExceeded(count)
                  THEN /\ requestCount' = count
                       /\ lastCall' = Caught([call EXCEPT !.nth = nth,
                                                          !.rejected = TRUE],
                                             "RateLimited", c1)
                       /\ UNCHANGED <<calls, admitTimes>>
                  ELSE /\ requestCount' = count + 1
                       /\ calls' = [calls EXCEPT ![c] = [call EXCEPT !.nth = nth,
                                                                     !.sent = TRUE]]
                       /\ admitTimes' = Append(Recent(admitTimes, now), now)
                       /\ lastCall' = lastCall
       /\ UNCHANGED <<runVars, authVars, searchVars, cacheObs>>

\* fetchCrimeData(params)
FetchCrimeData(c, in) ==
    FetchWithCache(c, "fetchCrimeData", CrimeUrl, crimeQuery(in), CrimeTTL,
                   FALSE, TRUE, cache)

\* fetchPlanningData(params)
FetchPlanningData(c, in) ==
    FetchWithCache(c, "fetchPlanningData", PlanningUrl, planningQuery(in),
                   PlanningTTL, FALSE, TRUE, cache)

\* fetchCouncilSpending(params)
FetchCouncilSpending(c, in) ==
    FetchWithCache(c, "fetchCouncilSpending", SpendingUrl, spendingQuery(in),
                   SpendingTTL, FALSE, TRUE, cache)

\* fetchPostcodeData(postcode)
FetchPostcodeData(c, chars) ==
    FetchWithCache(c, "fetchPostcodeData", postcodeUrl(chars), <<>>, PostcodeTTL,
                   FALSE, TRUE, cache)

\* proxyRequest(url, options): {...options, cacheTTL: options.cacheTTL || 3600,
\* allowStale: true}
ProxyRequest(c, url, params, cacheTTL, forceRefresh) ==
    FetchWithCache(c, "proxyRequest", url, params, fetchTtl(cacheTTL),
                   forceRefresh, TRUE, cache)

\* refreshCache(url, params)
RefreshCache(c, url, params) ==
    FetchWithCache(c, "refreshCache", url, params, 0, TRUE, FALSE,
                   cacheDelete(cache, generateKey(url, params)))

\* the response arrives: cacheManager.set(cacheKey, response.data, ttl)
Respond(c, data) ==
    LET call == calls[c]
    IN /\ call.pc = "awaiting"
       /\ cache' = cacheSet(cache, call.key, data, fetchTtl(call.cacheTTL), now)
       /\ disk' = trySave(disk, cache').file
       /\ lastCall' = Completed(call, "fetched", data, "none", data, cache')
       /\ calls' = [calls EXCEPT ![c] = IdleCall]
       /\ UNCHANGED <<runVars, authVars, searchVars, rateVars, started, cacheObs, admitTimes,
                      checksInWindow, lastCheck>>

\* the request fails (network error, timeout, error status)
Fail(c) ==
    /\ calls[c].pc = "awaiting"
    /\ lastCall' = Caught(calls[c], "UpstreamFetchFailed", cache)
    /\ calls' = [calls EXCEPT ![c] = IdleCall]
    /\ UNCHANGED <<runVars, authVars, searchVars, cacheVars, rateVars, started, cacheObs, admitTimes,
                   checksInWindow, lastCheck>>

InitGateway == Start /\ budget = [ops |-> MaxStarts, ticks |-> MaxTicks]

NextGateway ==
    \/ \E c \in CallIds, in \in CrimeInputs : FetchCrimeData(c, in)
    \/ \E c \in CallIds, in \in PlanningInputs : FetchPlanningData(c, in)
    \/ \E c \in CallIds, in \in SpendingInputs : FetchCouncilSpending(c, in)
    \/ \E c \in CallIds, pc \in Postcodes : FetchPostcodeData(c, pc)
    \/ \E c \in CallIds, ttl \in ProxyTTLs : ProxyRequest(c, ProxyUrl, <<>>, ttl, TRUE)
    \/ \E c \in CallIds, in \in RefreshInputs : RefreshCache(c, in[1], in[2])
    \/ \E c \in CallIds, data \in Responses : Respond(c, data)
    \/ \E c \in CallIds : Fail(c)
    \/ \E d \in GatewaySteps : Tick(d)

\* The gateway over hours: entries outlive their ttl, every tick ends the
\* rate window
SpecGateway == InitGateway /\ [][NextGateway]_vars

InitRate == Start /\ budget = [ops |-> MaxRateStarts, ticks |-> MaxRateTicks]

NextRate ==
    \/ \E c \in CallIds, pc \in Postcodes : FetchPostcodeData(c, pc)
    \/ \E c \in CallIds, in \in RefreshInputs : RefreshCache(c, in[1], in[2])
    \/ \E c \in CallIds, data \in RateResponses : Respond(c, data)
    \/ \E c \in CallIds : Fail(c)
    \/ \E d \in RateSteps : Tick(d)

\* The gateway over seconds: calls before and after the end of a rate window
SpecRate == InitRate /\ [][NextRate]_vars

-----------------------------------------------------------------------------
(* SearchEngine: text.  A string is the sequence of its characters, a      *)
(* token or an index term the string of its characters.                    *)

UpperCase == <<"A", "B", "C", "D", "E", "F", "G", "H", "I", "J", "K", "L", "M",
               "N", "O", "P", "Q", "R", "S", "T", "U", "V", "W", "X", "Y", "Z">>
LowerCase == <<"a", "b", "c", "d", "e", "f", "g", "h", "i", "j", "k", "l", "m",
               "n", "o", "p", "q", "r", "s", "t", "u", "v", "w", "x", "y", "z">>
Digits == <<"0", "1", "2", "3", "4", "5", "6", "7", "8", "9">>

Range(s) == {s[i] : i \in 1..Len(s)}
PositionIn(s, ch) == CHOOSE i \in 1..Len(s) : s[i] = ch

\* String.prototype.toLowerCase, character by character
toLowerCase(chars) ==
    [i \in 1..Len(chars) |->
        IF chars[i] \in Range(UpperCase)
        THEN LowerCase[PositionIn(UpperCase, chars[i])] ELSE chars[i]]

\* the classes \w and \s of the regular expressions
WordChars == Range(UpperCase) \cup Range(LowerCase) \cup Range(Digits) \cup {"_"}
WhiteSpace == {" ", "\t", "\n"}

\* text.replace(/[^\w\s-]/g, ' ')
replacePunctuation(chars) ==
    [i \in 1..Len(chars) |->
        IF chars[i] \in WordChars \cup WhiteSpace \cup {"-"} THEN chars[i] ELSE " "]

\* text.split(/\s+/): the pieces between the runs of white space, the empty
\* pieces before a leading and after a trailing run included
RECURSIVE splitFrom(_, _, _, _)
splitFrom(chars, i, piece, pieces) ==
    IF i > Len(chars) THEN Append(pieces, piece)
    ELSE IF chars[i] \in WhiteSpace
         THEN IF i > 1 /\ chars[i - 1] \in WhiteSpace
              THEN splitFrom(chars, i + 1, piece, pieces)
              ELSE splitFrom(chars, i + 1, <<>>, Append(pieces, piece))
         ELSE splitFrom(chars, i + 1, Append(piece, chars[i]), pieces)

splitWhiteSpace(chars) == splitFrom(chars, 1, <<>>, <<>>)

\* this.stopWords
stopWords ==
    {"the", "a", "an", "and", "or", "but", "in", "on", "at", "to", "for", "of",
     "with", "by", "from", "up", "about", "into", "through", "during", "before",
     "after", "above", "below", "is", "are", "was", "were", "be", "been", "being",
     "have", "has", "had", "do", "does", "did", "will", "would", "should",
     "could", "can", "may", "might", "must", "shall"}

\* word.length > 2
MinWordLength == 2

\* a filter that forgets the stop words
keepsWord_anyLong(word) == Len(word) > MinWordLength

keepsWord(word) == Len(word) > MinWordLength /\ Concat(word) \notin stopWords

\* tokenize(text) of a string: the tokens in order, repeated as in the text,
\* each as the sequence of its characters
tokenWords(chars) ==
    SelectSeq(splitWhiteSpace(replacePunctuation(toLowerCase(chars))), keepsWord)

tokenize(chars) ==
    LET kept == tokenWords(chars) IN [i \in 1..Len(kept) |-> Concat(kept[i])]

-----------------------------------------------------------------------------
(* SearchEngine: payloads.  A parsed JSON value is a record with its kind  *)
(* k; an object keeps its properties in order as <<name, value>> pairs.    *)

JString(chars) == [k |-> "string", s |-> chars]
JNumber(n) == [k |-> "number", n |-> n]
JArray(items) == [k |-> "array", items |-> items]
JObject(props) == [k |-> "object", props |-> props]
JNullValue == [k |-> "null"]
JUndefinedValue == [k |-> "undefined"]
EmptyString == JString(<<>>)

\* the values that are false in a condition: null, undefined, 0 and ''
Falsy(v) ==
    \/ v.k \in {"null", "undefined"}
    \/ v.k = "number" /\ v.n = 0
    \/ v.k = "string" /\ v.s = <<>>

Nullish(v) == v.k \in {"null", "undefined"}

\* value.name of a value that is neither null nor undefined
Prop(v, name) ==
    IF v.k = "object" /\ \E i \in 1..Len(v.props) : v.props[i][1] = name
    THEN v.props[CHOOSE i \in 1..Len(v.props) : v.props[i][1] = name][2]
    ELSE JUndefinedValue

\* value?.name
OptProp(v, name) == IF Nullish(v) THEN JUndefinedValue ELSE Prop(v, name)

\* value || ''
OrEmpty(v) == IF Falsy(v) THEN EmptyString ELSE v

\* the four texts.push of one element of a crime, planning or spending
\* payload; reading a property of null raises
crimeTexts(crime) ==
    <<OrEmpty(Prop(crime, "category")),
      OrEmpty(OptProp(OptProp(Prop(crime, "location"), "street"), "name")),
      OrEmpty(Prop(crime, "location_type")),
      OrEmpty(Prop(crime, "context"))>>

planningTexts(planning) ==
    <<OrEmpty(Prop(planning, "name")),
      OrEmpty(Prop(planning, "description")),
      OrEmpty(Prop(planning, "development_type")),
      OrEmpty(Prop(planning, "status"))>>

spendingTexts(record) ==
    LET f == Prop(record, "fields")
        fields == IF Falsy(f) THEN JObject(<<>>) ELSE f
    IN <<OrEmpty(Prop(fields, "supplier_name")),
         OrEmpty(Prop(fields, "description")),
         OrEmpty(Prop(fields, "service_area")),
         OrEmpty(Prop(fields, "expense_type"))>>

elementTexts(type, item) ==
    CASE type = "crime" -> crimeTexts(item)
      [] type = "planning" -> planningTexts(item)
      [] OTHER -> spendingTexts(item)

\* items.forEach(item => texts.push(...)) inside the try block: the first
\* null element raises, the catch block keeps the texts pushed before it
RECURSIVE pushEach(_, _, _)
pushEach(type, items, texts) ==
    IF items = <<>> \/ Nullish(Head(items)) THEN texts
    ELSE pushEach(type, Tail(items), texts \o elementTexts(type, Head(items)))

\* extractTextFromObject(obj, texts): every string of the payload tree
RECURSIVE extractTextFromObject(_)
RECURSIVE extractTextFromAll(_)
extractTextFromObject(obj) ==
    CASE obj.k = "string" -> <<obj>>
      [] obj.k = "array" -> extractTextFromAll(obj.items)
      [] obj.k = "object" ->
            extractTextFromAll([i \in 1..Len(obj.props) |-> obj.props[i][2]])
      [] OTHER -> <<>>
extractTextFromAll(values) ==
    IF values = <<>> THEN <<>>
    ELSE extractTextFromObject(Head(values)) \o extractTextFromAll(Tail(values))

\* the texts pushed by the switch of extractSearchableText
pushedTexts(data, type) ==
    CASE type \in {"crime", "planning"} ->
            IF data.k = "array" THEN pushEach(type, data.items, <<>>) ELSE <<>>
      [] type = "spending" ->
            LET records == Prop(data, "records")
            IN IF records.k = "array" THEN pushEach(type, records.items, <<>>)
               ELSE <<>>
      [] OTHER -> extractTextFromObject(data)

\* text.trim().length > 0
hasText(chars) == \E i \in 1..Len(chars) : chars[i] \notin WhiteSpace

\* texts.filter(text => text && text.trim().length > 0) raises a TypeError
\* on a text that is true and has no trim method
filterRaises(texts) ==
    \E i \in 1..Len(texts) : ~Falsy(texts[i]) /\ texts[i].k # "string"

\* extractSearchableText(data, type): the strings returned, or raised
extractSearchableText(data, type) ==
    IF Falsy(data) \/ data.k \notin {"array", "object"}
    THEN [raised |-> FALSE, texts |-> <<>>]
    ELSE LET texts == pushedTexts(data, type)
             strings == SelectSeq(texts, LAMBDA v : v.k = "string" /\ hasText(v.s))
         IN IF filterRaises(texts)
            THEN [raised |-> TRUE, texts |-> <<>>]
            ELSE [raised |-> FALSE,
                  texts |-> [i \in 1..Len(strings) |-> strings[i].s]]

\* searchableTexts.join(' ')
RECURSIVE joinTexts(_)
joinTexts(texts) ==
    IF texts = <<>> THEN <<>>
    ELSE IF Len(texts) = 1 THEN texts[1]
    ELSE texts[1] \o <<" ">> \o joinTexts(Tail(texts))

-----------------------------------------------------------------------------
(* SearchEngine: JSON text.  The store holds a payload as its JSON text;   *)
(* the search engine reads the parsed value.                               *)

\* the decimal digits of a natural number
RECURSIVE numberChars(_)
numberChars(n) ==
    IF n < 10 THEN <<Digits[n + 1]>>
    ELSE numberChars(n \div 10) \o <<Digits[(n % 10) + 1]>>

\* the characters of a string, the quote and the backslash escaped
RECURSIVE escaped(_)
escaped(chars) ==
    IF chars = <<>> THEN <<>>
    ELSE IF Len(chars) = 1
         THEN (IF chars[1] \in {"\"", "\\"} THEN <<"\\", chars[1]>> ELSE chars)
    ELSE LET half == Len(chars) \div 2
         IN escaped(SubSeq(chars, 1, half))
            \o escaped(SubSeq(chars, half + 1, Len(chars)))

\* a string between quotes, the quote and the backslash escaped
quoted(chars) == <<"\"">> \o escaped(chars) \o <<"\"">>

\* JSON.stringify(value)
RECURSIVE stringify(_)
RECURSIVE stringifyItems(_)
RECURSIVE stringifyProps(_)
stringify(v) ==
    CASE v.k = "string" -> quoted(v.s)
      [] v.k = "number" -> numberChars(v.n)
      [] v.k = "array" -> <<"[">> \o stringifyItems(v.items) \o <<"]">>
      [] v.k = "object" -> <<"{">> \o stringifyProps(v.props) \o <<"}">>
      [] OTHER -> <<"n", "u", "l", "l">>
stringifyItems(items) ==
    IF items = <<>> THEN <<>>
    ELSE stringify(Head(items))
         \o (IF Len(items) > 1 THEN <<",">> ELSE <<>>) \o stringifyItems(Tail(items))
stringifyProps(props) ==
    IF props = <<>> THEN <<>>
    ELSE quoted(<<Head(props)[1]>>) \o <<":">> \o stringify(Head(props)[2])
         \o (IF Len(props) > 1 THEN <<",">> ELSE <<>>) \o stringifyProps(Tail(props))

\* the JSON text of a value, as the store holds it
jsonText(v) == Concat(stringify(v))

-----------------------------------------------------------------------------
(* SearchEngine: the documents of the model                                *)

Burglary == <<"b", "u", "r", "g", "l", "a", "r", "y">>
HighSt == <<"H", "i", "g", "h", " ", "S", "t">>
CrimeNote == <<"C", "r", "i", "m", "e", " ", "c", "r", "i", "m", "e", ",", " ",
               "c", "r", "i", "m", "e", "s", " ", "2", "0", "2", "4", ":", " ",
               "t", "h", "e", " ", "B", "U", "R", "G", "L", "A", "R", "Y", "!">>
CrimeMap == <<"c", "r", "i", "m", "e", " ", "m", "a", "p">>
Constructor == <<"C", "o", "n", "s", "t", "r", "u", "c", "t", "o", "r">>

\* [{"category":"burglary","location":{"street":{"name":"High St"}}}]
BurglaryDoc ==
    JArray(<<JObject(<<
        <<"category", JString(Burglary)>>,
        <<"location", JObject(<<
            <<"street", JObject(<< <<"name", JString(HighSt)>> >>)>> >>)>> >>)>>)

\* {"note":"Crime crime, crimes 2024: the BURGLARY!","pages":[3]}
NoteDoc ==
    JObject(<< <<"note", JString(CrimeNote)>>,
               <<"pages", JArray(<<JNumber(3)>>)>> >>)

\* [{"name":"crime map","description":"burglary"},null,{"name":"High St"}]
PlanningDoc ==
    JArray(<<JObject(<< <<"name", JString(CrimeMap)>>,
                        <<"description", JString(Burglary)>> >>),
             JNullValue,
             JObject(<< <<"name", JString(HighSt)>> >>)>>)

\* {"records":[{"fields":{"supplier_name":7}}]}: a number where the text is
\* expected
NumberDoc ==
    JObject(<< <<"records", JArray(<<JObject(<<
        <<"fields", JObject(<< <<"supplier_name", JNumber(7)>> >>)>> >>)>>)>> >>)

\* {"records":[{"fields":{"supplier_name":"High St"}}]}
SupplierDoc ==
    JObject(<< <<"records", JArray(<<JObject(<<
        <<"fields", JObject(<< <<"supplier_name", JString(HighSt)>> >>)>> >>)>>)>> >>)

\* [{"name":"Constructor"}]
ConstructorDoc == JArray(<<JObject(<< <<"name", JString(Constructor)>> >>)>>)

\* the payloads of the cache and gateway operations above:
\* {"a":1}, [2], [{"id":1}] and 0
PlainValues ==
    {JObject(<< <<"a", JNumber(1)>> >>), JArray(<<JNumber(2)>>),
     JArray(<<JObject(<< <<"id", JNumber(1)>> >>)>>), JNumber(0)}

DocumentValues ==
    {BurglaryDoc, NoteDoc, PlanningDoc, NumberDoc, SupplierDoc, ConstructorDoc}
        \cup PlainValues

\* the JSON text of each payload of the model
JsonTexts == [v \in DocumentValues |-> jsonText(v)]

\* JSON.parse of a payload text of the model
parsed(data) == CHOOSE v \in DocumentValues : JsonTexts[v] = data

-----------------------------------------------------------------------------
(* SearchEngine: the index.  The index object is the sequence of its own   *)
(* properties in the order of Object.keys: the terms that are array        *)
(* indices ("2024") first, in ascending order, then the other terms in     *)
(* the order of their creation.                                            *)

\* a listing that forgets the expiry
getAllData_expired(c, t) ==
    [i \in 1..Len(c) |->
        [cacheKey |-> c[i].key, data |-> c[i].data,
         timestamp |-> c[i].timestamp, source |-> c[i].source]]

\* cacheManager.getAllData(): the entries that are not expired, in order
getAllData(c, t) ==
    LET live == SelectSeq(c, LAMBDA e : ~isExpired(t, e.timestamp, e.ttl))
    IN [i \in 1..Len(live) |->
          [cacheKey |-> live[i].key, data |-> live[i].data,
           timestamp |-> live[i].timestamp, source |-> live[i].source]]

\* a listing that marks the entries it lists as accessed
getAllDataStore_touched(c, t) ==
    [i \in 1..Len(c) |->
        IF isExpired(t, c[i].timestamp, c[i].ttl) THEN c[i]
        ELSE [c[i] EXCEPT !.lastAccessed = t]]

\* getAllData(): the store afterwards (it reads this.cache and writes nothing)
getAllDataStore(c, t) == c

\* str.includes(word), both as sequences of characters
Includes(chars, word) ==
    \E i \in 1..(Len(chars) - Len(word) + 1) :
        SubSeq(chars, i, i + Len(word) - 1) = word

\* the data type of buildIndex, from the characters of the cache key
dataTypeOf(chars) ==
    IF Includes(chars, <<"c", "r", "i", "m", "e">>) THEN "crime"
    ELSE IF Includes(chars, <<"p", "l", "a", "n", "n", "i", "n", "g">>)
         THEN "planning"
    ELSE IF Includes(chars, <<"s", "p", "e", "n", "d", "i", "n", "g">>)
         THEN "spending"
    ELSE "generic"

\* a document type that knows no spending
getDocumentType_noSpending(chars) ==
    IF Includes(chars, <<"c", "r", "i", "m", "e">>) THEN "crime"
    ELSE IF Includes(chars, <<"p", "l", "a", "n", "n", "i", "n", "g">>)
         THEN "planning"
    ELSE "generic"

\* getDocumentType(docId), from the characters of docId
getDocumentType(chars) ==
    IF Includes(chars, <<"c", "r", "i", "m", "e">>) THEN "crime"
    ELSE IF Includes(chars, <<"p", "l", "a", "n", "n", "i", "n", "g">>)
         THEN "planning"
    ELSE IF Includes(chars, <<"s", "p", "e", "n", "d", "i", "n", "g">>)
         THEN "spending"
    ELSE "generic"

\* the properties every object inherits whose name can be a token
\* (lower case, longer than two characters)
InheritedNames == {"constructor", "__proto__"}

\* the order of two numbers written in digits without leading zeros
RECURSIVE digitsLess(_, _)
digitsLess(a, b) ==
    IF Len(a) # Len(b) THEN Len(a) < Len(b)
    ELSE IF a = <<>> THEN FALSE
    ELSE IF a[1] # b[1] THEN PositionIn(Digits, a[1]) < PositionIn(Digits, b[1])
    ELSE digitsLess(Tail(a), Tail(b))

\* the largest array index, 2^32 - 2
MaxArrayIndex == <<"4", "2", "9", "4", "9", "6", "7", "2", "9", "4">>

\* a property name that is an array index: such properties come first and
\* in ascending order in Object.keys
isArrayIndex(word) ==
    /\ word # <<>>
    /\ \A i \in 1..Len(word) : word[i] \in Range(Digits)
    /\ (word[1] # "0" \/ Len(word) = 1)
    /\ ~digitsLess(MaxArrayIndex, word)

\* newIndex[token] = [] : the place of the new property among the others
withTerm(idx, term, word) ==
    LET ai == IF isArrayIndex(word) THEN word ELSE <<>>
        entry == [term |-> term, chars |-> word, arrayIndex |-> ai,
                  postings |-> <<>>]
        before == SelectSeq(idx, LAMBDA e : e.arrayIndex # <<>>
                                            /\ digitsLess(e.arrayIndex, ai))
    IN IF ai = <<>> THEN Append(idx, entry)
       ELSE before \o <<entry>> \o SubSeq(idx, Len(before) + 1, Len(idx))

TermAt(idx, term) ==
    IF \E i \in 1..Len(idx) : idx[i].term = term
    THEN CHOOSE i \in 1..Len(idx) : idx[i].term = term ELSE 0

\* this.index[token] || [] for a token that is not an inherited name
postingsOf(idx, term) ==
    IF TermAt(idx, term) = 0 THEN <<>> ELSE idx[TermAt(idx, term)].postings

\* the upsert of a posting that pushes a second posting for the document
upsert_push(postings, docId, type) ==
    Append(postings, [docId |-> docId, count |-> 1, type |-> type, fields |-> <<>>])

\* existingEntry.count++, or newIndex[token].push({...}); the fields of
\* getFieldsContainingTerm are always []
upsert(postings, docId, type) ==
    IF \E i \in 1..Len(postings) : postings[i].docId = docId
    THEN [i \in 1..Len(postings) |->
            IF postings[i].docId = docId
            THEN [postings[i] EXCEPT !.count = @ + 1] ELSE postings[i]]
    ELSE Append(postings, [docId |-> docId, count |-> 1, type |-> type,
                           fields |-> <<>>])

\* tokens.forEach(token => ...) for one document: the index after it, or
\* raised when a token names an inherited property (newIndex[token] is then
\* not an array and has no find method)
RECURSIVE addTokens(_, _, _, _)
addTokens(idx, words, docId, type) ==
    IF words = <<>> THEN [raised |-> FALSE, index |-> idx]
    ELSE LET term == Concat(Head(words))
             idx1 == IF TermAt(idx, term) = 0
                     THEN withTerm(idx, term, Head(words)) ELSE idx
             at == TermAt(idx1, term)
         IN IF term \in InheritedNames THEN [raised |-> TRUE, index |-> idx]
            ELSE addTokens([idx1 EXCEPT ![at].postings = upsert(@, docId, type)],
                           Tail(words), docId, type)

\* the tokens of one document of getAllData, or raised by the filter of
\* extractSearchableText
documentWords(item) ==
    LET type == dataTypeOf(keyChars(item.cacheKey))
        extracted == extractSearchableText(parsed(item.data), type)
    IN [raised |-> extracted.raised, type |-> type,
        words |-> IF extracted.raised THEN <<>>
                  ELSE tokenWords(joinTexts(extracted.texts))]

\* cachedData.forEach(item => ...) of buildIndex: newIndex after the last
\* document, or raised by a document (nothing catches it)
RECURSIVE addDocuments(_, _)
addDocuments(idx, items) ==
    IF items = <<>> THEN [raised |-> FALSE, index |-> idx]
    ELSE LET doc == documentWords(Head(items))
             added == addTokens(idx, doc.words, Head(items).cacheKey, doc.type)
         IN IF doc.raised \/ added.raised THEN [raised |-> TRUE, index |-> idx]
            ELSE addDocuments(added.index, Tail(items))

\* buildIndex(): newIndex of the live entries of store c at time t
buildIndex(c, t) == addDocuments(<<>>, getAllData(c, t))

\* saveIndex(): JSON.stringify keeps the terms, their order and the postings
saveIndex(idx) ==
    [i \in 1..Len(idx) |-> [term |-> idx[i].term, postings |-> idx[i].postings]]

\* a clearIndex() that leaves the index as it is
clearIndex_stale == index

\* clearIndex()
clearIndex == <<>>

-----------------------------------------------------------------------------
(* SearchEngine: search                                                    *)

\* the defaults of the options of search and of getSuggestions
DefaultLimit == 20
DefaultSuggestLimit == 5
\* getSuggestions answers [] to a query of fewer than 2 characters
MinQueryLength == 2
\* generateSnippet: index - 50 and maxLength = 200
SnippetLead == 50
SnippetMaxLength == 200

\* a score that takes every posting for a match in a name field
calculateTokenScore_name(match) == match.count * 2

\* calculateTokenScore(token, match, cachedData)
calculateTokenScore(match) ==
    IF \E i \in 1..Len(match.fields) : match.fields[i] = "title"
    THEN match.count * 3
    ELSE IF \E i \in 1..Len(match.fields) : match.fields[i] = "name"
         THEN match.count * 2
         ELSE match.count

\* docScores.set(docId, (docScores.get(docId) || 0) + tokenScore): a Map
\* keeps its keys in the order of their first set
scoreAdd(scores, docId, tokenScore) ==
    IF \E i \in 1..Len(scores) : scores[i].docId = docId
    THEN [i \in 1..Len(scores) |->
            IF scores[i].docId = docId
            THEN [scores[i] EXCEPT !.score = @ + tokenScore] ELSE scores[i]]
    ELSE Append(scores, [docId |-> docId, score |-> tokenScore])

\* a scan that takes the postings of every type
scoreMatches_all(scores, matches, type) ==
    LET all[i \in 0..Len(matches)] ==
            IF i = 0 THEN scores
            ELSE scoreAdd(all[i - 1], matches[i].docId,
                          calculateTokenScore(matches[i]))
    IN all[Len(matches)]

\* matches.forEach(match => ...) for one token
RECURSIVE scoreMatches(_, _, _)
scoreMatches(scores, matches, type) ==
    IF matches = <<>> THEN scores
    ELSE scoreMatches(
            IF type # JsNull /\ Head(matches).type # type THEN scores
            ELSE scoreAdd(scores, Head(matches).docId,
                          calculateTokenScore(Head(matches))),
            Tail(matches), type)

\* tokens.forEach(token => ...): docScores, or raised when a token names an
\* inherited property (this.index[token] is then not an array and has no
\* forEach method)
RECURSIVE scoreTokens(_, _, _, _)
scoreTokens(scores, tokens, idx, type) ==
    IF tokens = <<>> THEN [raised |-> FALSE, scores |-> scores]
    ELSE IF Head(tokens) \in InheritedNames
         THEN [raised |-> TRUE, scores |-> scores]
         ELSE scoreTokens(scoreMatches(scores, postingsOf(idx, Head(tokens)), type),
                          Tail(tokens), idx, type)

\* a sort that puts a document before the documents of equal score found
\* earlier
insertByScore_before(s, e) ==
    LET before == SelectSeq(s, LAMBDA x : x.score > e.score)
    IN before \o <<e>> \o SubSeq(s, Len(before) + 1, Len(s))

\* .sort((a, b) => b[1] - a[1]): the sort is stable, e goes after the
\* elements whose score is not smaller
insertByScore(s, e) ==
    LET before == SelectSeq(s, LAMBDA x : x.score >= e.score)
    IN before \o <<e>> \o SubSeq(s, Len(before) + 1, Len(s))

RECURSIVE sortByScore(_)
sortByScore(s) ==
    IF s = <<>> THEN <<>>
    ELSE insertByScore(sortByScore(SubSeq(s, 1, Len(s) - 1)), s[Len(s)])

\* the position a slice bound stands for in an array of length n
sliceBound(x, n) == IF x < 0 THEN (IF n + x < 0 THEN 0 ELSE n + x)
                    ELSE (IF x > n THEN n ELSE x)

\* a page that ends at limit instead of offset + limit
slice_toLimit(s, offset, limit) ==
    SubSeq(s, sliceBound(offset, Len(s)) + 1, sliceBound(limit, Len(s)))

\* .slice(offset, offset + limit)
slice(s, offset, limit) ==
    SubSeq(s, sliceBound(offset, Len(s)) + 1, sliceBound(offset + limit, Len(s)))

\* text.indexOf(word), counted from 0, or -1
indexOf(chars, word) ==
    IF Includes(chars, word)
    THEN (CHOOSE i \in 1..(Len(chars) - Len(word) + 1) :
            /\ SubSeq(chars, i, i + Len(word) - 1) = word
            /\ \A j \in 1..(i - 1) : SubSeq(chars, j, j + Len(word) - 1) # word) - 1
    ELSE -1

\* the payload of a result: the parsed value of a live entry, undefined for
\* a document that getAllData no longer lists
liveValue(cachedData, docId) ==
    IF \E i \in 1..Len(cachedData) : cachedData[i].cacheKey = docId
    THEN parsed(cachedData[CHOOSE i \in 1..Len(cachedData) :
                               cachedData[i].cacheKey = docId].data)
    ELSE JUndefinedValue

\* generateSnippet(data, tokens): the characters of the snippet; data is
\* truthy and a token occurs in its text
snippetChars(data, words) ==
    LET text == toLowerCase(stringify(data))
        found == SelectSeq(words, LAMBDA w : Includes(text, w))
        at == indexOf(text, found[1])
        start == IF at - SnippetLead < 0 THEN 0 ELSE at - SnippetLead
        end == IF at + SnippetMaxLength > Len(text) THEN Len(text)
               ELSE at + SnippetMaxLength
    IN SubSeq(text, start + 1, end)
       \o (IF end < Len(text) THEN <<".", ".", ".">> ELSE <<>>)

\* generateSnippet(data, tokens): the snippet as a string, or null
generateSnippet(data, words) ==
    LET text == toLowerCase(stringify(data))
        found == SelectSeq(words, LAMBDA w : Includes(text, w))
    IN IF Falsy(data) \/ found = <<>> THEN JsNull
       ELSE Concat(snippetChars(data, words))

\* a word boundary \b between positions i and i + 1 of text
boundaryAfter(text, i) ==
    (i >= 1 /\ text[i] \in WordChars) # (i < Len(text) /\ text[i + 1] \in WordChars)

\* the matches of new RegExp(`\\b${token}\\b`, 'gi') in text from position i
RECURSIVE countMatches(_, _, _)
countMatches(text, word, i) ==
    IF i + Len(word) - 1 > Len(text) THEN 0
    ELSE IF /\ SubSeq(text, i, i + Len(word) - 1) = word
            /\ boundaryAfter(text, i - 1)
            /\ boundaryAfter(text, i + Len(word) - 1)
         THEN 1 + countMatches(text, word, i + Len(word))
         ELSE countMatches(text, word, i + 1)

\* generateHighlights(data, tokens)
generateHighlights(data, words) ==
    IF Falsy(data) THEN <<>>
    ELSE LET text == toLowerCase(stringify(data))
             hit == SelectSeq(words, LAMBDA w : countMatches(text, w, 1) > 0)
         IN [i \in 1..Len(hit) |->
               [term |-> Concat(hit[i]), count |-> countMatches(text, hit[i], 1)]]

\* the answer of search to an empty query or to a query without tokens
NoResults == [raised |-> FALSE, results |-> <<>>, total |-> 0, tokens |-> <<>>,
              ranking |-> <<>>, discovered |-> <<>>]

\* search(query, options) on index idx and store c at time t: the answer,
\* with the whole ranking and the documents in the order of their
\* discovery, or raised
search(query, options, idx, c, t) ==
    LET words == tokenWords(query)
        tokens == [i \in 1..Len(words) |-> Concat(words[i])]
        cachedData == getAllData(c, t)
        scored == scoreTokens(<<>>, tokens, idx, options.type)
        ranking == sortByScore(scored.scores)
        page == slice(ranking, options.offset, options.limit)
        result(r) ==
            LET data == liveValue(cachedData, r.docId)
            IN [id |-> r.docId, score |-> r.score,
                data |-> IF data.k = "undefined" THEN JsNull ELSE JsonTexts[data],
                type |-> getDocumentType(keyChars(r.docId)),
                snippet |-> IF options.includeSnippets
                            THEN generateSnippet(data, words) ELSE JsNull,
                highlights |-> generateHighlights(data, words)]
    IN IF query = <<>> \/ words = <<>> THEN NoResults
       ELSE IF scored.raised THEN [NoResults EXCEPT !.raised = TRUE, !.tokens = tokens]
       ELSE [raised |-> FALSE,
             results |-> [i \in 1..Len(page) |-> result(page[i])],
             total |-> Len(scored.scores), tokens |-> tokens,
             ranking |-> ranking, discovered |-> scored.scores]

\* term.startsWith(prefix), the term given with its characters
startsWith(chars, prefix) ==
    Len(prefix) <= Len(chars) /\ SubSeq(chars, 1, Len(prefix)) = prefix

\* suggestions for the first token of the query
getSuggestions_firstToken(query, limit, idx) ==
    LET words == tokenWords(query)
        lastToken == IF words # <<>> THEN words[1] ELSE toLowerCase(query)
        matching == SelectSeq(idx, LAMBDA e : startsWith(e.chars, lastToken))
        listed == slice(matching, 0, limit)
    IN IF Len(query) < MinQueryLength THEN <<>>
       ELSE [i \in 1..Len(listed) |->
               [term |-> listed[i].term, count |-> Len(listed[i].postings)]]

\* getSuggestions(query, limit) on index idx
getSuggestions(query, limit, idx) ==
    LET words == tokenWords(query)
        lastToken == IF words # <<>> THEN words[Len(words)] ELSE toLowerCase(query)
        matching == SelectSeq(idx, LAMBDA e : startsWith(e.chars, lastToken))
        listed == slice(matching, 0, limit)
    IN IF Len(query) < MinQueryLength THEN <<>>
       ELSE [i \in 1..Len(listed) |->
               [term |-> listed[i].term, count |-> Len(listed[i].postings)]]

-----------------------------------------------------------------------------
(* Search engine operations, with the cache operations and the gateway     *)
(* calls that change the store under the index                             *)

MaxSearchOps == 4
MaxSearchTicks == 1

\* set(key, data, ttl): one payload per key; the note lives one second
SearchSetInputs ==
    {<<KeyStrings[CrimeKeyChars], JsonTexts[BurglaryDoc], CACHE_TTL>>,
     <<KeyStrings[NotesKeyChars], JsonTexts[NoteDoc], 1>>,
     <<KeyStrings[PlanningKeyChars], JsonTexts[ConstructorDoc], CACHE_TTL>>}
IndexingSetInputs ==
    {<<KeyStrings[CrimeKeyChars], JsonTexts[BurglaryDoc], 1>>,
     <<KeyStrings[SpendingKeyChars], JsonTexts[NumberDoc], CACHE_TTL>>}
SuggestSetInputs ==
    {<<KeyStrings[CrimeKeyChars], JsonTexts[BurglaryDoc], CACHE_TTL>>,
     <<KeyStrings[NotesKeyChars], JsonTexts[NoteDoc], CACHE_TTL>>}
SearchDeletes == {KeyStrings[CrimeKeyChars]}
SearchResponses == {JsonTexts[PlanningDoc]}
SearchSteps == {2000}

DefaultOptions == [limit |-> DefaultLimit, offset |-> 0, type |-> JsNull,
                   includeSnippets |-> TRUE]
SecondOfOne == [DefaultOptions EXCEPT !.limit = 1, !.offset = 1,
                                      !.includeSnippets = FALSE]
CrimeOnly == [DefaultOptions EXCEPT !.type = "crime"]
NoneAtAll == [DefaultOptions EXCEPT !.limit = 0]

\* the queries: burglary, "burglary crime", "the of", "", "-- a!",
\* "constructor" and "burglary Burglary!"
BurglaryCrimeQuery == Burglary \o <<" ", "c", "r", "i", "m", "e">>
TheOfQuery == <<"t", "h", "e", " ", "o", "f">>
DashesQuery == <<"-", "-", " ", "a", "!">>
BurglaryTwice == Burglary \o <<" ", "B">> \o Tail(Burglary) \o <<"!">>
SearchInputs ==
    {<<Burglary, DefaultOptions>>, <<Burglary, CrimeOnly>>,
     <<Burglary, NoneAtAll>>,
     <<BurglaryCrimeQuery, DefaultOptions>>, <<BurglaryCrimeQuery, SecondOfOne>>,
     <<TheOfQuery, DefaultOptions>>, <<<<>>, DefaultOptions>>,
     <<DashesQuery, SecondOfOne>>, <<toLowerCase(Constructor), DefaultOptions>>,
     <<BurglaryTwice, DefaultOptions>>}
IndexingSearchInputs == {<<Burglary, DefaultOptions>>}

\* getSuggestions("cri", 5), ("cri", 1), ("b", 5), ("Crime BUR", 5) and
\* ("20", 5)
SuggestInputs ==
    {<<<<"c", "r", "i">>, DefaultSuggestLimit>>, <<<<"c", "r", "i">>, 1>>,
     <<<<"b">>, DefaultSuggestLimit>>,
     <<<<"C", "r", "i", "m", "e", " ", "B", "U", "R">>, DefaultSuggestLimit>>,
     <<<<"2", "0">>, DefaultSuggestLimit>>}

\* rebuildIndex(): clearIndex(), buildIndex(), lastBuilt; it has no await,
\* so no other handler runs inside it
RebuildIndex ==
    LET built == buildIndex(cache, now)
    IN /\ started < budget.ops
       /\ started' = started + 1
       /\ index' = IF built.raised THEN clearIndex ELSE built.index
       /\ indexDisk' = saveIndex(index')
       /\ lastBuilt' = IF built.raised THEN lastBuilt ELSE [built |-> TRUE, at |-> now]
       /\ lastQuery' = [op |-> "rebuildIndex", seq |-> started', at |-> now,
                        store |-> cache, raised |-> built.raised]
       /\ builtFrom' = [called |-> TRUE, raised |-> built.raised, at |-> now,
                        store |-> cache,
                        inFlight |-> {c \in CallIds : calls[c].pc = "awaiting"}]
       /\ UNCHANGED <<runVars, authVars, cacheVars, rateVars, calls, cacheObs,
                      gatewayObs>>

\* search(query, options)
Search(query, options) ==
    /\ started < budget.ops
    /\ started' = started + 1
    /\ lastQuery' = [op |-> "search", seq |-> started', at |-> now,
                     store |-> cache, files |-> <<disk, index, indexDisk>>,
                     query |-> query, options |-> options,
                     answer |-> search(query, options, index, cache, now)]
    /\ cache' = getAllDataStore(cache, now)
    /\ UNCHANGED <<runVars, authVars, disk, rateVars, calls, cacheObs,
                   gatewayObs, index, indexDisk, lastBuilt, builtFrom>>

\* getSuggestions(query, limit)
GetSuggestions(query, limit) ==
    /\ started < budget.ops
    /\ started' = started + 1
    /\ lastQuery' = [op |-> "getSuggestions", seq |-> started', at |-> now,
                     store |-> cache, files |-> <<disk, index, indexDisk>>,
                     query |-> query, limit |-> limit,
                     suggestions |-> getSuggestions(query, limit, index)]
    /\ UNCHANGED <<runVars, authVars, cacheVars, rateVars, calls, cacheObs,
                   gatewayObs, index, indexDisk, lastBuilt, builtFrom>>

InitSearch == Start /\ budget = [ops |-> MaxSearchOps, ticks |-> MaxSearchTicks]

NextSearch ==
    \/ \E in \in SearchSetInputs : Set(in[1], in[2], in[3])
    \/ \E k \in SearchDeletes : Delete(k)
    \/ RebuildIndex
    \/ \E in \in SearchInputs : Search(in[1], in[2])
    \/ \E d \in SearchSteps : Tick(d)

\* The search engine over the store: documents are set, deleted and expire
\* between rebuilds and searches
SpecSearch == InitSearch /\ [][NextSearch]_vars

MaxIndexingOps == 4
MaxIndexingTicks == 1

InitIndexing == Start /\ budget = [ops |-> MaxIndexingOps, ticks |-> MaxIndexingTicks]

NextIndexing ==
    \/ \E c \in CallIds, in \in PlanningInputs : FetchPlanningData(c, in)
    \/ \E c \in CallIds, data \in SearchResponses : Respond(c, data)
    \/ \E c \in CallIds : Fail(c)
    \/ \E in \in IndexingSetInputs : Set(in[1], in[2], in[3])
    \/ \E k \in SearchDeletes : Delete(k)
    \/ Clear
    \/ RebuildIndex
    \/ \E in \in IndexingSearchInputs : Search(in[1], in[2])
    \/ \E d \in SearchSteps : Tick(d)

\* Rebuilds and searches between the start and the end of gateway calls
SpecIndexing == InitIndexing /\ [][NextIndexing]_vars

MaxSuggestOps == 4
MaxSuggestTicks == 1

InitSuggest == Start /\ budget = [ops |-> MaxSuggestOps, ticks |-> MaxSuggestTicks]

NextSuggest ==
    \/ \E in \in SuggestSetInputs : Set(in[1], in[2], in[3])
    \/ \E k \in SearchDeletes : Delete(k)
    \/ RebuildIndex
    \/ \E in \in SuggestInputs : GetSuggestions(in[1], in[2])
    \/ \E d \in SearchSteps : Tick(d)

\* Suggestions from the index between the writes of the store and the rebuilds
SpecSuggest == InitSuggest /\ [][NextSuggest]_vars

MaxFrameOps == 4

FrameSetInputs ==
    {<<KeyStrings[CrimeKeyChars], JsonTexts[BurglaryDoc], CACHE_TTL>>,
     <<KeyStrings[SpendingKeyChars], JsonTexts[NumberDoc], CACHE_TTL>>}
FrameCalls == {1}
FrameSuggestInputs == {<<<<"b", "u", "r">>, DefaultSuggestLimit>>}

\* the clock stands still: no operation of the frame waits for it
InitFrame == Start /\ budget = [ops |-> MaxFrameOps, ticks |-> 0]

NextFrame ==
    \/ \E c \in FrameCalls, in \in PlanningInputs : FetchPlanningData(c, in)
    \/ \E c \in FrameCalls, in \in RefreshInputs : RefreshCache(c, in[1], in[2])
    \/ \E c \in FrameCalls, data \in SearchResponses : Respond(c, data)
    \/ \E c \in FrameCalls : Fail(c)
    \/ \E k \in SearchDeletes : Get(k)
    \/ \E in \in FrameSetInputs : Set(in[1], in[2], in[3])
    \/ Cleanup
    \/ \E k \in SearchDeletes : Delete(k)
    \/ Clear
    \/ RebuildIndex
    \/ \E in \in IndexingSearchInputs : Search(in[1], in[2])
    \/ \E in \in FrameSuggestInputs : GetSuggestions(in[1], in[2])

\* Every operation of the store, of the gateway and of the search engine
SpecFrame == InitFrame /\ [][NextFrame]_vars

\* The three fetchers, their responses, and searches by category
MaxSourceOps == 4
SourceSpendingInputs ==
    {[dataset |-> JsUndefined, q |-> JsUndefined,
      rows |-> JsUndefined, start |-> JsUndefined],
     [dataset |-> "council-spending", q |-> JsUndefined,
      rows |-> JsUndefined, start |-> JsUndefined]}
SourceResponses ==
    {JsonTexts[BurglaryDoc], JsonTexts[PlanningDoc], JsonTexts[SupplierDoc]}
BurglaryHighSt == Burglary \o <<" ">> \o HighSt
OfType(type) == [DefaultOptions EXCEPT !.type = type]
SourceSearchInputs ==
    {<<BurglaryHighSt, DefaultOptions>>, <<BurglaryHighSt, OfType("crime")>>,
     <<BurglaryHighSt, OfType("planning")>>,
     <<BurglaryHighSt, OfType("spending")>>}

InitSources == Start /\ budget = [ops |-> MaxSourceOps, ticks |-> 0]

NextSources ==
    \/ \E c \in FrameCalls, in \in CrimeInputs : FetchCrimeData(c, in)
    \/ \E c \in FrameCalls, in \in PlanningInputs : FetchPlanningData(c, in)
    \/ \E c \in FrameCalls, in \in SourceSpendingInputs : FetchCouncilSpending(c, in)
    \/ \E c \in FrameCalls, data \in SourceResponses : Respond(c, data)
    \/ RebuildIndex
    \/ \E in \in SourceSearchInputs : Search(in[1], in[2])

SpecSources == InitSources /\ [][NextSources]_vars

\* generateSnippet on payloads whose text is longer than a snippet
MaxSnippetOps == 1
MaxPadding == 5

Repeat(ch, n) == [i \in 1..n |-> ch]

\* {"note":"xx...xburglaryyy...y"} with lead x and tail y
PaddedDoc(lead, tail) ==
    JObject(<< <<"note", JString(Repeat("x", lead) \o Burglary
                                 \o Repeat("y", tail))>> >>)

Leads == (SnippetLead - 20)..(SnippetLead + MaxPadding)
Tails == (SnippetMaxLength - 20)..(SnippetMaxLength + MaxPadding)
SnippetPayloads ==
    {PaddedDoc(lead, tail) : lead \in Leads, tail \in Tails}
        \cup {JNullValue, BurglaryDoc}
SnippetTokens == {<<Burglary>>, <<<<"z", "z", "z">>, Burglary>>, <<<<"z", "z", "z">>>>}

\* generateSnippet(data, tokens), as search calls it for a result
GenerateSnippet(data, words) ==
    LET snippet == generateSnippet(data, words)
    IN /\ started < budget.ops
       /\ started' = started + 1
       /\ lastQuery' = [op |-> "generateSnippet", seq |-> started', at |-> now,
                        data |-> data, words |-> words, snippet |-> snippet,
                        chars |-> IF snippet = JsNull THEN <<>>
                                  ELSE snippetChars(data, words)]
       /\ UNCHANGED <<runVars, authVars, cacheVars, rateVars, calls, cacheObs,
                      gatewayObs, index, indexDisk, lastBuilt, builtFrom>>

InitSnippet == Start /\ budget = [ops |-> MaxSnippetOps, ticks |-> 0]

NextSnippet ==
    \E data \in SnippetPayloads, words \in SnippetTokens : GenerateSnippet(data, words)

SpecSnippet == InitSnippet /\ [][NextSnippet]_vars

\* Calls and refreshes with the same parameters inserted in every order
MaxKeyOps == 3
LatLngDate == << <<"lat", "51.5">>, <<"lng", "-0.1">>, <<"date", "2024-01">> >>
OtherDate == << <<"date", "2024-02">>, <<"lat", "51.5">>, <<"lng", "-0.1">> >>
Orders(params) ==
    {[i \in 1..Len(params) |-> params[order[i]]] :
        order \in {f \in [1..Len(params) -> 1..Len(params)] :
                     \A i, j \in 1..Len(params) : f[i] = f[j] => i = j}}
KeyParams == Orders(LatLngDate) \cup {OtherDate}

InitKeys == Start /\ budget = [ops |-> MaxKeyOps, ticks |-> 0]

NextKeys ==
    \/ \E c \in FrameCalls, params \in KeyParams, ttl \in ProxyTTLs :
          ProxyRequest(c, ProxyUrl, params, ttl, FALSE)
    \/ \E c \in FrameCalls, params \in KeyParams : RefreshCache(c, ProxyUrl, params)
    \/ \E c \in FrameCalls, data \in Responses : Respond(c, data)
    \/ \E c \in FrameCalls : Fail(c)

SpecKeys == InitKeys /\ [][NextKeys]_vars

\* Forced requests of one key while other requests write, delete and clear
MaxStaleOps == 3
StalePayloads == {"[{\"id\":1}]", "[{\"id\":2}]"}
ProxyKey == generateKey(ProxyUrl, <<>>)

InitStale == Start /\ budget = [ops |-> MaxStaleOps, ticks |-> 0]

NextStale ==
    \/ \E data \in StalePayloads, ttl \in ProxyTTLs : Set(ProxyKey, data, ttl)
    \/ Delete(ProxyKey)
    \/ Clear
    \/ \E c \in CallIds, ttl \in ProxyTTLs : ProxyRequest(c, ProxyUrl, <<>>, ttl, TRUE)
    \/ \E c \in CallIds, data \in StalePayloads : Respond(c, data)
    \/ \E c \in CallIds : Fail(c)

SpecStale == InitStale /\ [][NextStale]_vars

\* Searches and suggestions between writes of the store, over seconds
MaxReadOps == 4
MaxReadTicks == 1
ReadSetInputs ==
    {<<KeyStrings[CrimeKeyChars], JsonTexts[BurglaryDoc], CACHE_TTL>>,
     <<KeyStrings[NotesKeyChars], JsonTexts[NoteDoc], 1>>}

InitRead == Start /\ budget = [ops |-> MaxReadOps, ticks |-> MaxReadTicks]

NextRead ==
    \/ \E in \in ReadSetInputs : Set(in[1], in[2], in[3])
    \/ RebuildIndex
    \/ \E in \in IndexingSearchInputs : Search(in[1], in[2])
    \/ \E in \in FrameSuggestInputs : GetSuggestions(in[1], in[2])
    \/ \E d \in SearchSteps : Tick(d)

SpecRead == InitRead /\ [][NextRead]_vars

-----------------------------------------------------------------------------
(* Accounts (src/auth/auth.js) and the usage middleware of the routes.     *)
(* readUsers(), writeUsers() and the token file helpers are synchronous,   *)
(* so an operation reads and writes the files in one step; hashPassword()  *)
(* is awaited, so createUser and resetPassword stop there and are resumed  *)
(* in a later step, no earlier than the next millisecond, while other      *)
(* requests run.  Of a user, the fields no operation reads (name,          *)
(* provider, plan, createdAt, lastLoginAt, lastSearchAt) are left out; an  *)
(* id is Date.now() before its conversion to a string.                     *)

\* searchLimit: 10 in createUser
SearchLimit == 10

\* the requests of a user past the limit that are followed
MaxRefusals == 2

\* expiresIn: '24h' and '1h', in seconds
VerificationExpiry == 86400
ResetExpiry == 3600

NoUser == [id |-> 0, email |-> "", password |-> <<>>, emailVerified |-> FALSE,
           searchesUsed |-> 0, searchLimit |-> 0]

\* bcrypt.hash(password, 12), the salt left out
hashPassword(password) == <<"bcrypt", password>>

\* users.find(user => user.email === email) !== undefined
HasEmail(us, email) == \E i \in 1..Len(us) : us[i].email = email

\* users.findIndex(user => user.id === id), counted from 1; 0 for -1
findIndex(us, id) ==
    IF \E i \in 1..Len(us) : us[i].id = id
    THEN CHOOSE i \in 1..Len(us) :
            us[i].id = id /\ \A j \in 1..(i - 1) : us[j].id # id
    ELSE 0

\* findUserById(id)
findUserById(us, id) == IF findIndex(us, id) = 0 THEN NoUser ELSE us[findIndex(us, id)]

\* updateUser(id, updates): whether it throws, the file and the user afterwards
updateUser(us, id, updates) ==
    LET i == findIndex(us, id)
    IN IF i = 0
       THEN [raised |-> TRUE, users |-> us, user |-> NoUser]
       ELSE [raised |-> FALSE,
             users |-> [us EXCEPT ![i] = updates @@ us[i]],
             user |-> updates @@ us[i]]

\* createUser after the hash: users.push(newUser); writeUsers(users), where
\* users is the array read before the hash
createUserWrite(read, email, hashed, t) ==
    Append(read, [id |-> t, email |-> email, password |-> hashed,
                  emailVerified |-> FALSE, searchesUsed |-> 0,
                  searchLimit |-> SearchLimit])

\* jwt.sign(payload, JWT_SECRET, {expiresIn}): the payload with iat and exp in
\* seconds; the signature is a function of these
jwtSign(payload, t, expiresIn) ==
    [payload |-> payload, iat |-> t \div MsPerSecond,
     exp |-> (t \div MsPerSecond) + expiresIn]

\* jwt.verify(token, JWT_SECRET) of a token this server signed: it throws
\* once the token has expired
jwtVerifyRaises(token, t) == t \div MsPerSecond >= token.exp

\* tokens.find(t => t.token === token) !== undefined
HasToken(tokens, token) == \E i \in 1..Len(tokens) : tokens[i].token = token

\* tokens.filter(t => t.token !== token)
WithoutToken(tokens, token) == SelectSeq(tokens, LAMBDA x : x.token # token)

\* createVerificationToken(userId, email): the token and the file afterwards
createVerificationToken(tokens, userId, email, t) ==
    LET token == jwtSign([userId |-> userId, email |-> email, type |-> JsUndefined],
                         t, VerificationExpiry)
    IN [token |-> token,
        tokens |-> Append(SelectSeq(tokens, LAMBDA x : x.userId # userId),
                          [userId |-> userId, email |-> email, token |-> token,
                           type |-> JsUndefined])]

\* createPasswordResetToken(userId, email): the token and the file afterwards
createPasswordResetToken(tokens, userId, email, t) ==
    LET token == jwtSign([userId |-> userId, email |-> email,
                          type |-> "password-reset"], t, ResetExpiry)
    IN [token |-> token,
        tokens |-> Append(SelectSeq(tokens,
                              LAMBDA x : ~(x.userId = userId /\ x.type = "password-reset")),
                          [userId |-> userId, email |-> email, token |-> token,
                           type |-> "password-reset"])]

\* a verifyEmailToken that leaves the token it used in the file
verifyEmailToken_kept(tokens, us, token, t) ==
    IF jwtVerifyRaises(token, t) \/ ~HasToken(tokens, token)
    THEN [raised |-> TRUE, tokens |-> tokens, users |-> us]
    ELSE LET upd == updateUser(us, token.payload.userId, [emailVerified |-> TRUE])
         IN [raised |-> upd.raised, tokens |-> tokens, users |-> upd.users]

\* verifyEmailToken(token): whether it throws, and both files afterwards
verifyEmailToken(tokens, us, token, t) ==
    IF jwtVerifyRaises(token, t) \/ ~HasToken(tokens, token)
    THEN [raised |-> TRUE, tokens |-> tokens, users |-> us]
    ELSE LET upd == updateUser(us, token.payload.userId, [emailVerified |-> TRUE])
         IN [raised |-> upd.raised, tokens |-> WithoutToken(tokens, token),
             users |-> upd.users]

\* verifyPasswordResetToken(token) throws
verifyPasswordResetTokenRaises(tokens, token, t) ==
    \/ jwtVerifyRaises(token, t)
    \/ token.payload.type # "password-reset"
    \/ ~\E i \in 1..Len(tokens) :
            tokens[i].token = token /\ tokens[i].type = "password-reset"

\* the outcome of an account operation on a token, as observed: whether the
\* token had been used, replaced or stored when the operation started
TokenOp(op, ok, token, obs, tokens) ==
    [NoAuthOp EXCEPT !.op = op, !.ok = ok, !.id = token.payload.userId,
                     !.email = token.payload.email, !.token = token,
                     !.verifiedBefore = token \in obs.verified,
                     !.resetBefore = token \in obs.wasReset,
                     !.replacedBefore = token \in obs.replaced,
                     !.spentBefore = token \in obs.spent,
                     !.storedBefore = HasToken(tokens, token)]

\* the lowest free slot for an awaited account call
FreeAuthSlot(p) ==
    /\ authCalls[p].pc = "idle"
    /\ \A q \in AuthCallIds : authCalls[q].pc = "idle" => p <= q

\* the createUser calls awaiting their hash, by the number of their start
CreatingNow == {authCalls[q].nth : q \in {r \in AuthCallIds :
                                            authCalls[r].op = "createUser"}}

otherVars == <<now, ticks, budget, host, cacheVars, rateVars, calls, searchVars,
               cacheObs, gatewayObs>>

\* createUser(userData) up to the await of hashPassword
CreateUser(p, email, password) ==
    /\ started < budget.ops
    /\ FreeAuthSlot(p)
    /\ started' = started + 1
    /\ IF HasEmail(users, email)
       THEN /\ authObs' = [authObs EXCEPT
                             !.last = [NoAuthOp EXCEPT !.op = "createUser",
                                                       !.email = email]]
            /\ UNCHANGED authCalls
       ELSE /\ authCalls' =
                  [q \in AuthCallIds |->
                      IF q = p
                      THEN [IdleAuthCall EXCEPT
                               !.pc = "hashing", !.op = "createUser", !.at = now,
                               !.nth = started', !.users = users, !.email = email,
                               !.password = password, !.overlapped = CreatingNow]
                      ELSE IF authCalls[q].op = "createUser"
                           THEN [authCalls[q] EXCEPT !.overlapped = @ \cup {started'}]
                           ELSE authCalls[q]]
            /\ UNCHANGED authObs
    /\ UNCHANGED <<users, verificationTokens, otherVars>>

\* createUser from the hash on: the user is pushed and the file written
HashedUser(p) ==
    LET call == authCalls[p]
    IN /\ call.pc = "hashing" /\ call.op = "createUser"
       /\ now > call.at
       /\ users' = createUserWrite(call.users, call.email,
                                   hashPassword(call.password), now)
       /\ authCalls' = [authCalls EXCEPT ![p] = IdleAuthCall]
       /\ authObs' = [authObs EXCEPT
                        !.last = [NoAuthOp EXCEPT !.op = "createUser", !.ok = TRUE,
                                                  !.id = now, !.email = call.email],
                        !.created = @ \cup {[nth |-> call.nth, email |-> call.email,
                                             id |-> now,
                                             overlapped |-> call.overlapped]}]
       /\ UNCHANGED <<verificationTokens, started, otherVars>>

\* the handlers of the usage-tracked routes run so far for the user with this id
RunsOf(id) == IF id \in DOMAIN authObs.runs THEN authObs.runs[id] ELSE 0

\* a request to a usage-tracked route by the user with this id:
\* authenticateToken, then trackUsage (trackSearchUsage), then the handler
TrackedRequest(id) ==
    LET user == findUserById(users, id)
        upd == updateUser(users, id, [searchesUsed |-> user.searchesUsed + 1])
        refused == upd.user.searchesUsed > upd.user.searchLimit
    IN /\ findIndex(users, id) # 0
       /\ user.searchesUsed < user.searchLimit + MaxRefusals
       /\ RunsOf(id) <= user.searchLimit
       /\ users' = upd.users
       /\ authObs' = [authObs EXCEPT
                        !.last = [NoAuthOp EXCEPT
                                     !.op = "tracked", !.ok = ~refused, !.id = id,
                                     !.before = user.searchesUsed,
                                     !.after = upd.user.searchesUsed,
                                     !.limit = upd.user.searchLimit,
                                     !.status = IF refused THEN 429 ELSE 0,
                                     !.ran = ~refused],
                        !.runs = IF refused THEN @
                                 ELSE IF id \in DOMAIN @ THEN [@ EXCEPT ![id] = @ + 1]
                                 ELSE (id :> 1) @@ @]
       /\ UNCHANGED <<verificationTokens, authCalls, started, otherVars>>

\* the tokens of the same user and kind as token, other than token
EarlierOf(token, issued) ==
    {t \in issued : /\ t.payload.userId = token.payload.userId
                    /\ t.payload.type = token.payload.type
                    /\ t # token}

\* a token was issued: what is observed of it
Issued(op, r, obs, tokens) ==
    [obs EXCEPT !.last = [TokenOp(op, TRUE, r.token, obs, tokens) EXCEPT
                             !.resetsKept =
                                \A i \in 1..Len(tokens) :
                                   (/\ tokens[i].userId = r.token.payload.userId
                                    /\ tokens[i].type = "password-reset"
                                    /\ tokens[i].token # r.token)
                                   => HasToken(r.tokens, tokens[i].token),
                             !.storedAfter = HasToken(r.tokens, r.token)],
                 !.issued = @ \cup {r.token},
                 !.replaced = @ \cup EarlierOf(r.token, obs.issued),
                 !.spent = (@ \cup EarlierOf(r.token, obs.issued)) \ {r.token}]

\* createVerificationToken(user.id, user.email) for the i-th user
CreateVerificationToken(i) ==
    LET r == createVerificationToken(verificationTokens, users[i].id,
                                     users[i].email, now)
    IN /\ started < budget.ops
       /\ started' = started + 1
       /\ verificationTokens' = r.tokens
       /\ authObs' = Issued("createVerificationToken", r, authObs, verificationTokens)
       /\ UNCHANGED <<users, authCalls, otherVars>>

\* createPasswordResetToken(user.id, user.email) for the i-th user
CreatePasswordResetToken(i) ==
    LET r == createPasswordResetToken(verificationTokens, users[i].id,
                                      users[i].email, now)
    IN /\ started < budget.ops
       /\ started' = started + 1
       /\ verificationTokens' = r.tokens
       /\ authObs' = Issued("createPasswordResetToken", r, authObs, verificationTokens)
       /\ UNCHANGED <<users, authCalls, otherVars>>

\* verifyEmailToken(token)
VerifyEmailToken(token) ==
    LET r == verifyEmailToken(verificationTokens, users, token, now)
    IN /\ started < budget.ops
       /\ started' = started + 1
       /\ verificationTokens' = r.tokens
       /\ users' = r.users
       /\ authObs' = [authObs EXCEPT
                        !.last = [TokenOp("verifyEmailToken", ~r.raised, token,
                                          authObs, verificationTokens) EXCEPT
                                     !.storedAfter = HasToken(r.tokens, token)],
                        !.verified = IF r.raised THEN @ ELSE @ \cup {token},
                        !.spent = IF r.raised THEN @ ELSE @ \cup {token}]
       /\ UNCHANGED <<authCalls, otherVars>>

\* verifyPasswordResetToken(token)
VerifyPasswordResetToken(token) ==
    /\ started < budget.ops
    /\ started' = started + 1
    /\ authObs' = [authObs EXCEPT
                     !.last = [TokenOp("verifyPasswordResetToken",
                                       ~verifyPasswordResetTokenRaises(
                                            verificationTokens, token, now),
                                       token, authObs, verificationTokens) EXCEPT
                                  !.storedAfter = HasToken(verificationTokens, token)]]
    /\ UNCHANGED <<users, verificationTokens, authCalls, otherVars>>

\* resetPassword(token, newPassword) up to the await of hashPassword
ResetPassword(p, token, password) ==
    LET seen == TokenOp("resetPassword", FALSE, token, authObs, verificationTokens)
    IN /\ started < budget.ops
       /\ FreeAuthSlot(p)
       /\ started' = started + 1
       /\ IF verifyPasswordResetTokenRaises(verificationTokens, token, now)
          THEN /\ authObs' = [authObs EXCEPT
                                !.last = [seen EXCEPT !.storedAfter = seen.storedBefore]]
               /\ UNCHANGED authCalls
          ELSE /\ authCalls' = [authCalls EXCEPT
                                  ![p] = [IdleAuthCall EXCEPT
                                             !.pc = "hashing", !.op = "resetPassword",
                                             !.at = now, !.nth = started',
                                             !.token = token, !.password = password,
                                             !.seen = seen]]
               /\ UNCHANGED authObs
       /\ UNCHANGED <<users, verificationTokens, otherVars>>

\* resetPassword from the hash on: updateUser, then the token is removed
HashedPassword(p) ==
    LET call == authCalls[p]
        upd == updateUser(users, call.token.payload.userId,
                          [password |-> hashPassword(call.password)])
    IN /\ call.pc = "hashing" /\ call.op = "resetPassword"
       /\ now > call.at
       /\ users' = upd.users
       /\ verificationTokens' = IF upd.raised THEN verificationTokens
                                ELSE WithoutToken(verificationTokens, call.token)
       /\ authCalls' = [authCalls EXCEPT ![p] = IdleAuthCall]
       /\ authObs' = [authObs EXCEPT
                        !.last = [call.seen EXCEPT
                                     !.ok = ~upd.raised,
                                     !.storedAfter =
                                        HasToken(verificationTokens', call.token)],
                        !.wasReset = IF upd.raised THEN @ ELSE @ \cup {call.token},
                        !.spent = IF upd.raised THEN @ ELSE @ \cup {call.token}]
       /\ UNCHANGED <<started, otherVars>>

\* Registrations that overlap, and requests of one user to the usage-tracked
\* routes, up to MaxRefusals requests past the limit
MaxAccountOps == 3
Requesters == {"a@example.org"}
MaxAccountTicks == 2
Emails == {"a@example.org", "b@example.org"}
Passwords == {"secret1"}
AccountSteps == {1000}
UserIds(us) == {us[i].id : i \in {j \in 1..Len(us) : us[j].email \in Requesters}}

InitAccounts == Start /\ budget = [ops |-> MaxAccountOps, ticks |-> MaxAccountTicks]

NextAccounts ==
    \/ \E p \in AuthCallIds, email \in Emails, password \in Passwords :
          CreateUser(p, email, password)
    \/ \E p \in AuthCallIds : HashedUser(p)
    \/ \E id \in UserIds(users) : TrackedRequest(id)
    \/ \E d \in AccountSteps : Tick(d)

SpecAccounts == InitAccounts /\ [][NextAccounts]_vars

\* Tokens of one registered user: issued, used and issued again, over seconds
MaxTokenOps == 5
MaxTokenTicks == 2
TokenEmails == {"a@example.org"}
TokenSteps == {1000}

InitTokens == Start /\ budget = [ops |-> MaxTokenOps, ticks |-> MaxTokenTicks]

NextTokens ==
    \/ \E p \in AuthCallIds, email \in TokenEmails, password \in Passwords :
          CreateUser(p, email, password)
    \/ \E p \in AuthCallIds : HashedUser(p)
    \/ \E i \in 1..Len(users) : CreateVerificationToken(i)
    \/ \E i \in 1..Len(users) : CreatePasswordResetToken(i)
    \/ \E token \in authObs.issued : VerifyEmailToken(token)
    \/ \E token \in authObs.issued : VerifyPasswordResetToken(token)
    \/ \E p \in AuthCallIds, token \in authObs.issued, password \in Passwords :
          ResetPassword(p, token, password)
    \/ \E p \in AuthCallIds : HashedPassword(p)
    \/ \E d \in TokenSteps : Tick(d)

SpecTokens == InitTokens /\ [][NextTokens]_vars

-----------------------------------------------------------------------------
(* Claims about the cache store                                            *)

\* the age of entry e at time t exceeds its ttl
PastTtl(e, t) == t - e.timestamp > e.ttl * 1000

\* C1 (as stated): a get(k) issued after set(k, v, ttl) while now - createdAt
\* <= ttl*1000, with no set/delete/clear on k in between, returns v, whatever
\* other keys were set, read or deleted in between.
C1_RoundTripAlways ==
    (last.op = "get" /\ written[last.key].isSet)
        => last.ret = written[last.key].v

\* C1 (amended): the same get returns v provided k was not evicted for size
\* by the cleanup of a set() or cleanup() in between.
C1_RoundTripUnlessEvicted ==
    (last.op = "get" /\ written[last.key].isSet /\ last.key \notin sizeEvicted)
        => last.ret = written[last.key].v

\* a get read back a value written earlier, at the last millisecond of its ttl,
\* after other keys were written
C1_Witness ==
    /\ last.op = "get"
    /\ written[last.key].isSet
    /\ last.key \notin sizeEvicted
    /\ last.at - written[last.key].at = written[last.key].ttl * 1000
    /\ last.ret = written[last.key].v
    /\ Len(cache) > 1

\* C2: get(k) never returns the payload of an entry whose age exceeds its
\* ttl; such a get returns absent and removes the entry, which stats() no
\* longer counts.
C2_Expiry ==
    last.op = "get" =>
        /\ (last.had /\ PastTtl(last.entry, last.at)) =>
              /\ last.ret = JsNull
              /\ last.key \notin KeysOf(cache)
              /\ getStats(cache, now).totalItems = last.preTotal - 1
        /\ (last.had /\ ~PastTtl(last.entry, last.at)) =>
              /\ last.ret = last.entry.data
              /\ getStats(cache, now).totalItems = last.preTotal

\* a get found an entry past its ttl
C2_Witness ==
    /\ last.op = "get"
    /\ last.had
    /\ PastTtl(last.entry, last.at)
    /\ last.ret = JsNull
    /\ last.preTotal > 1

\* C3: when a set() completes, the store holds at most maxSize entries.
C3_SizeBound ==
    last.op = "set" => Len(cache) <= CACHE_MAX_SIZE

\* C4: every entry evicted for size has lastAccessed <= that of every entry
\* that survives; a get that returns an entry sets its lastAccessed, so the
\* entry read last is never evicted while an entry not touched since before
\* that read survives.
C4_LruVictims ==
    /\ \A e \in last.evicted, s \in last.survivors :
          /\ e.lastAccessed <= s.lastAccessed
          /\ (e.key = lastRead.key => ~(s.lastAccessed < lastRead.at))
    /\ (last.op = "get" /\ last.had /\ ~PastTtl(last.entry, last.at)) =>
          cache[IndexOf(cache, last.key)].lastAccessed = last.at

\* a set evicted an older entry for size and kept the entry that was read last
C4_Witness ==
    /\ last.op = "set"
    /\ last.evicted # {}
    /\ \E s \in last.survivors : s.key = lastRead.key /\ s.lastAccessed = lastRead.at
    /\ \E e \in last.evicted, s \in last.survivors :
          e.timestamp > s.timestamp /\ e.lastAccessed < s.lastAccessed

-----------------------------------------------------------------------------
(* Claims about the fetch gateway                                          *)

\* the calls in flight and the call completed last
CallRecords == {calls[c] : c \in {d \in CallIds : calls[d].pc # "idle"}}
                   \cup {lastCall.call}

\* C5: of the calls that miss the cache inside one window, the first limit
\* are admitted and perform the external call, and each later one is rejected
\* with a rate-limit error and performs no external call.
C5_RateLimit ==
    /\ \A r \in CallRecords :
          /\ (r.nth >= 1 /\ r.nth <= API_RATE_LIMIT) => (r.sent /\ ~r.rejected)
          /\ r.nth > API_RATE_LIMIT => (r.rejected /\ ~r.sent)
    /\ \A c \in CallIds : calls[c].pc = "awaiting" => calls[c].sent
    /\ (lastCall.call.rejected /\ lastCall.call.cachedData = JsNull) =>
          /\ lastCall.outcome = "error"
          /\ lastCall.err = "RateLimited"
          /\ lastCall.response = JsUndefined

\* the third call that missed the cache inside one window was rejected, the two
\* before it were sent
C5_Witness ==
    /\ lastCall.call.nth = API_RATE_LIMIT + 1
    /\ lastCall.err = "RateLimited"
    /\ requestCount = API_RATE_LIMIT
    /\ Len(admitTimes) = API_RATE_LIMIT
    /\ now - windowStart = windowSize

\* C6 (as stated): every interval of length windowSize contains at most limit
\* admitted external calls, also when it straddles a window reset.
C6_RollingBound ==
    Len(admitTimes) <= API_RATE_LIMIT

\* C6 (amended): at most limit external calls are admitted between two window
\* resets; an interval of length windowSize that straddles a reset can hold
\* more than limit admitted calls, and never more than twice limit.
C6_FixedWindowBound ==
    /\ Len(SelectSeq(admitTimes, LAMBDA t : t >= windowStart)) <= API_RATE_LIMIT
    /\ Len(SelectSeq(admitTimes, LAMBDA t : t >= windowStart)) = requestCount
           \/ now - windowStart > windowSize
    /\ Len(admitTimes) <= 2 * API_RATE_LIMIT

\* twice limit calls were admitted within 30 seconds, limit of them before and
\* limit after a window reset, and a further call was rejected
C6_Witness ==
    /\ Len(admitTimes) = 2 * API_RATE_LIMIT
    /\ admitTimes[Len(admitTimes)] - admitTimes[1] < windowSize
    /\ lastCall.err = "RateLimited"
    /\ lastCall.call.nth = API_RATE_LIMIT + 1
    /\ windowStart = admitTimes[API_RATE_LIMIT + 1]

\* C7: if a live entry exists for the key and forceRefresh is false,
\* fetchWithCache returns the cached payload, whatever its value, makes no
\* external call and leaves requestCount and windowStart alone.
C7_CacheHit ==
    (lastCall.call.pre = "live" /\ ~lastCall.call.forceRefresh) =>
        /\ lastCall.outcome = "hit"
        /\ lastCall.ret = lastCall.call.preData
        /\ ~lastCall.call.sent
        /\ lastCall.call.nth = 0

\* C8: if the entry at the key has passed its ttl, allowStale is set and the
\* external call fails, fetchWithCache returns the expired payload.
C8_StaleFallback ==
    (/\ lastCall.call.pre = "expired"
     /\ lastCall.call.allowStale
     /\ lastCall.err = "UpstreamFetchFailed") =>
        /\ lastCall.outcome = "stale"
        /\ lastCall.ret = lastCall.call.preData

\* C9: refreshCache first removes the entry at the key, then always goes to
\* the rate limiter and, if admitted, to the external call, also when a live
\* entry existed; on success the new payload is stored under the same key and
\* returned.
C9_RefreshOrdering ==
    /\ \A r \in CallRecords : r.op = "refreshCache" =>
          /\ r.removed
          /\ r.cachedData = JsNull
          /\ r.nth >= 1
          /\ r.sent # r.rejected
    /\ lastCall.call.op = "refreshCache" =>
          /\ lastCall.outcome \in {"fetched", "error"}
          /\ lastCall.response # JsUndefined => lastCall.outcome = "fetched"
          /\ lastCall.outcome = "fetched" =>
                /\ lastCall.ret = lastCall.response
                /\ lastCall.stored.key = lastCall.call.key
                /\ lastCall.stored.data = lastCall.response

\* a refresh of a key that held a live entry fetched and stored another payload
C9_Witness ==
    /\ lastCall.call.op = "refreshCache"
    /\ lastCall.call.pre = "live"
    /\ lastCall.outcome = "fetched"
    /\ lastCall.ret # lastCall.call.preData
    /\ lastCall.stored.data = lastCall.ret

CrimeKeys == {generateKey(CrimeUrl, crimeQuery(in)) : in \in CrimeInputs}
PlanningKeys == {generateKey(PlanningUrl, planningQuery(in)) : in \in PlanningInputs}
SpendingKeys == {generateKey(SpendingUrl, spendingQuery(in)) : in \in SpendingInputs}
PostcodeKeys == {generateKey(postcodeUrl(pc), <<>>) : pc \in Postcodes}

\* C10: every entry written for a source by a fetcher or by refreshCache
\* carries the ttl of the source (crime 3600, planning 1800, spending 3600,
\* postcode 86400), and the four fetchers call fetchWithCache with allowStale.
C10_SourceTtl ==
    /\ \A e \in EntriesOf(cache) :
          /\ e.key \in CrimeKeys => e.ttl = 3600
          /\ e.key \in PlanningKeys => e.ttl = 1800
          /\ e.key \in SpendingKeys => e.ttl = 3600
          /\ e.key \in PostcodeKeys => e.ttl = 86400
    /\ \A r \in CallRecords :
          r.op \in {"fetchCrimeData", "fetchPlanningData", "fetchCouncilSpending",
                    "fetchPostcodeData"} => r.allowStale

-----------------------------------------------------------------------------
(* Claims about the search engine                                          *)

\* the last search engine operation was a rebuildIndex() on the store as
\* it is now
JustRebuilt ==
    lastQuery.op = "rebuildIndex" /\ lastQuery.store = cache /\ lastQuery.at = now

\* the last operation of all was a search: the clock alone may have advanced
\* since
JustSearched == lastQuery.op = "search" /\ lastQuery.seq = started

\* the tokens of the extracted text of live entry item, as buildIndex reads it
TokensOf(item) == documentWords(item).words

\* search(t) with default options lists document docId
Finds(word, docId) ==
    LET answer == search(word, DefaultOptions, index, cache, now)
    IN /\ ~answer.raised
       /\ \E i \in 1..Len(answer.results) : answer.results[i].id = docId

\* C11: after rebuildIndex(), every token of the extracted text of every live
\* entry, searched with the default options, lists that entry's key among
\* the results.
C11_Findability ==
    JustRebuilt =>
        \A i \in 1..Len(getAllData(cache, now)) :
            LET item == getAllData(cache, now)[i]
            IN \A j \in 1..Len(TokensOf(item)) : Finds(TokensOf(item)[j], item.cacheKey)

\* the queries of the model whose tokenization is empty: "", stop words
\* only, punctuation and words of at most 2 characters
TokenlessQueries == {<<>>, TheOfQuery, DashesQuery}

\* C12: search("") and search(q) for a q without tokens answer total 0 and
\* results [] without raising, and leave the index, the cache and their
\* files as they were.
C12_EmptyQuery ==
    (lastQuery.op = "search" /\ lastQuery.query \in TokenlessQueries) =>
        /\ ~lastQuery.answer.raised
        /\ lastQuery.answer.total = 0
        /\ lastQuery.answer.results = <<>>
        /\ JustSearched =>
              /\ cache = lastQuery.store
              /\ <<disk, index, indexDisk>> = lastQuery.files

C12_Witness ==
    /\ JustSearched
    /\ lastQuery.query = TheOfQuery
    /\ \E i \in 1..Len(index) : index[i].term = "burglary"
    /\ getAllData(cache, now) # <<>>

\* the occurrences of term among the tokens of a document
Occurrences(words, term) == Cardinality({i \in 1..Len(words) : Concat(words[i]) = term})

\* C13: every term of the index has at most one posting per document, and
\* in the index that buildIndex just produced the count of a posting is the
\* number of occurrences of the term among the tokens of its document.
C13_PostingUniqueness ==
    /\ \A e \in Range(index) :
          \A i, j \in 1..Len(e.postings) :
              e.postings[i].docId = e.postings[j].docId => i = j
    /\ (JustRebuilt /\ ~lastQuery.raised) =>
          \A e \in Range(index) : \A p \in Range(e.postings) :
              \E item \in Range(getAllData(cache, now)) :
                  /\ item.cacheKey = p.docId
                  /\ p.count = Occurrences(TokensOf(item), e.term)

C13_Witness ==
    /\ JustRebuilt /\ ~lastQuery.raised
    /\ \E e \in Range(index) : Len(e.postings) > 1
    /\ \E e \in Range(index) : \E p \in Range(e.postings) : p.count > 1

\* idx holds exactly the tokens of the documents of snapshot
IsViewOf(idx, snapshot) ==
    /\ \A e \in Range(idx) : \A p \in Range(e.postings) :
          \E item \in Range(snapshot) :
              /\ item.cacheKey = p.docId
              /\ \E w \in Range(TokensOf(item)) : Concat(w) = e.term
    /\ \A item \in Range(snapshot) : \A w \in Range(TokensOf(item)) :
          \E e \in Range(idx) :
              /\ e.term = Concat(w)
              /\ \E p \in Range(e.postings) : p.docId = item.cacheKey

\* the entries that were live at the instant of the last rebuildIndex()
LiveAtBuild ==
    SelectSeq(builtFrom.store,
              LAMBDA e : builtFrom.at - e.timestamp <= e.ttl * MsPerSecond)

\* C14: whatever gateway calls are in flight and whatever set, delete and
\* clear run before and after it, the index that a rebuildIndex() which
\* returned leaves in place holds exactly the tokens of the entries that
\* were live at the instant of the build; every state, hence every search,
\* sees that index, or the empty index (before the first build and after a
\* build that raised), never a part of one.
C14_DerivedView ==
    IF builtFrom.called /\ ~builtFrom.raised
    THEN IsViewOf(index, [i \in 1..Len(LiveAtBuild) |->
                            [cacheKey |-> LiveAtBuild[i].key,
                             data |-> LiveAtBuild[i].data]])
    ELSE index = <<>>

C14_Witness ==
    /\ lastQuery.op = "search"
    /\ builtFrom.called /\ ~builtFrom.raised /\ builtFrom.inFlight # {}
    /\ index # <<>>
    /\ HasKey(cache, PlanningUrl) /\ ~HasKey(builtFrom.store, PlanningUrl)
    /\ \E e \in Range(builtFrom.store) : ~HasKey(cache, e.key)

\* processing document item raises in buildIndex: in the filter after the
\* extraction, or in the posting upsert of one of its tokens
ProcessingRaises(item) ==
    \/ documentWords(item).raised
    \/ \E w \in Range(TokensOf(item)) : Concat(w) \in InheritedNames

\* every token of document item has a posting of the document in idx
Indexed(idx, item) ==
    \A w \in Range(TokensOf(item)) :
        \E e \in Range(idx) :
            /\ e.term = Concat(w)
            /\ \E p \in Range(e.postings) : p.docId = item.cacheKey

\* C15: a live document whose processing raises during rebuildIndex() is
\* skipped: the rebuild completes and every other document that was live at
\* the build is indexed, so one bad document never leaves the index empty.
C15_BuildFailureIsolation ==
    lastQuery.op = "rebuildIndex" =>
        /\ ~lastQuery.raised
        /\ \A i \in 1..Len(LiveAtBuild) :
              LET item == [cacheKey |-> LiveAtBuild[i].key,
                           data |-> LiveAtBuild[i].data]
              IN ~ProcessingRaises(item) => Indexed(index, item)

\* the place of document docId in the order of discovery of an answer
DiscoveryOf(answer, docId) ==
    CHOOSE i \in 1..Len(answer.discovered) : answer.discovered[i].docId = docId

\* C16: in the result list of a search the scores never increase from first
\* to last, and of two documents of equal score the one discovered first
\* while scanning the tokens and their postings comes first.
C16_RankingOrder ==
    (lastQuery.op = "search" /\ ~lastQuery.answer.raised) =>
        LET results == lastQuery.answer.results
        IN \A i, j \in 1..Len(results) :
              i < j =>
                /\ results[i].score >= results[j].score
                /\ results[i].score = results[j].score =>
                      DiscoveryOf(lastQuery.answer, results[i].id)
                          < DiscoveryOf(lastQuery.answer, results[j].id)

\* a search whose ranking is not the order of discovery
Reordered ==
    /\ lastQuery.op = "search" /\ ~lastQuery.answer.raised
    /\ Len(lastQuery.answer.results) >= 2
    /\ lastQuery.answer.results[1].id # lastQuery.answer.discovered[1].docId

\* a search that lists two documents of equal score
C16_Witness ==
    /\ lastQuery.op = "search" /\ ~lastQuery.answer.raised
    /\ LET results == lastQuery.answer.results
       IN /\ Len(results) >= 2
          /\ results[1].score = results[2].score
          /\ results[1].id # results[2].id

\* the documents and scores of a ranking and of a result list
Ranked(ranking) ==
    [i \in 1..Len(ranking) |-> <<ranking[i].docId, ranking[i].score>>]
Listed(results) ==
    [i \in 1..Len(results) |-> <<results[i].id, results[i].score>>]

\* the answer to the query of the last search with other options, on the
\* index and the store that search read
Again(options) ==
    search(lastQuery.query, options, lastQuery.files[2], lastQuery.store,
           lastQuery.at)

\* the pages offset = 0, limit, ..., (k - 1) * limit of the last search, one
\* after the other
RECURSIVE FirstPages(_)
FirstPages(k) ==
    IF k = 0 THEN <<>>
    ELSE FirstPages(k - 1)
         \o Listed(Again([lastQuery.options EXCEPT
                              !.offset = (k - 1) * lastQuery.options.limit]).results)

\* the last search returned the positions [offset, offset + limit) of the
\* whole ranking, and its total is the number of matching documents whatever
\* the offset and the limit
PageOfRanking ==
    LET answer == lastQuery.answer
        offset == lastQuery.options.offset
        limit == lastQuery.options.limit
        n == Len(answer.ranking)
        from == IF offset > n THEN n ELSE offset
        upto == IF offset + limit > n THEN n ELSE offset + limit
    IN /\ Listed(answer.results) = SubSeq(Ranked(answer.ranking), from + 1, upto)
       /\ answer.total = n
       /\ \A other \in {DefaultOptions, SecondOfOne, NoneAtAll} :
             Again([other EXCEPT !.type = lastQuery.options.type]).total = n

\* some number of pages, one after the other, is the whole ranking
PagesMakeRanking ==
    \E k \in 0..(Len(lastQuery.answer.ranking) + 1) :
        FirstPages(k) = Ranked(lastQuery.answer.ranking)

\* C17 as stated: for any offset >= 0 and limit >= 0 a search returns the
\* positions [offset, offset + limit) of the whole ranking, total is the
\* number of matching documents, and the pages offset = 0, limit, 2 * limit,
\* ... one after the other are the whole ranking.
C17_Pagination ==
    (lastQuery.op = "search" /\ ~lastQuery.answer.raised) =>
        PageOfRanking /\ PagesMakeRanking

\* C17 amended: the same, the pages making the whole ranking when limit >= 1
\* (with limit = 0 every page is empty).
C17_PaginationOfPages ==
    (lastQuery.op = "search" /\ ~lastQuery.answer.raised) =>
        /\ PageOfRanking
        /\ lastQuery.options.limit >= 1 => PagesMakeRanking
        /\ lastQuery.options.limit = 0 => lastQuery.answer.results = <<>>

\* the second page of one of a ranking of two documents
C17_Witness ==
    /\ lastQuery.op = "search" /\ ~lastQuery.answer.raised
    /\ lastQuery.options = SecondOfOne
    /\ Len(lastQuery.answer.ranking) = 2
    /\ Listed(lastQuery.answer.results) = <<Ranked(lastQuery.answer.ranking)[2]>>

\* the entries the last search or suggestion found live in the store
LiveAtQuery ==
    SelectSeq(lastQuery.store,
              LAMBDA e : lastQuery.at - e.timestamp <= e.ttl * MsPerSecond)
LiveThen(docId) == \E i \in 1..Len(LiveAtQuery) : LiveAtQuery[i].key = docId

\* C18: a document that has postings in the index and has since been
\* deleted, evicted or has expired in the store is still a result of search,
\* with its id and its score, with data null, snippet null and no highlights;
\* the next rebuildIndex() leaves no posting of a document that is not live.
C18_OrphanedPostings ==
    /\ (lastQuery.op = "search" /\ ~lastQuery.answer.raised) =>
          LET answer == lastQuery.answer
              type == lastQuery.options.type
          IN /\ \A i \in 1..Len(answer.tokens) :
                   \A p \in Range(postingsOf(lastQuery.files[2], answer.tokens[i])) :
                       (type = JsNull \/ p.type = type) =>
                           \E j \in 1..Len(answer.ranking) :
                               /\ answer.ranking[j].docId = p.docId
                               /\ answer.ranking[j].score >= p.count
             /\ \A i \in 1..Len(answer.results) :
                   LET result == answer.results[i]
                   IN IF LiveThen(result.id)
                      THEN result.data # JsNull
                      ELSE /\ result.data = JsNull
                           /\ result.snippet = JsNull
                           /\ result.highlights = <<>>
                           /\ result.score >= 1
                           /\ Listed(answer.results)[i]
                                 \in Range(Ranked(answer.ranking))
    /\ (lastQuery.op = "rebuildIndex" /\ ~lastQuery.raised) =>
          \A e \in Range(index) : \A p \in Range(e.postings) :
              LiveThen(p.docId)

\* a search that lists a deleted document
ListsDeleted ==
    /\ lastQuery.op = "search" /\ ~lastQuery.answer.raised
    /\ \E i \in 1..Len(lastQuery.answer.results) :
          /\ ~HasKey(lastQuery.store, lastQuery.answer.results[i].id)
          /\ lastQuery.answer.results[i].data = JsNull

\* a search that lists an expired document next to a live one
C18_Witness ==
    /\ lastQuery.op = "search" /\ ~lastQuery.answer.raised
    /\ \E i, j \in 1..Len(lastQuery.answer.results) :
          /\ HasKey(lastQuery.store, lastQuery.answer.results[i].id)
          /\ ~LiveThen(lastQuery.answer.results[i].id)
          /\ lastQuery.answer.results[i].data = JsNull
          /\ LiveThen(lastQuery.answer.results[j].id)

\* the terms of the index the last getSuggestions read that begin with
\* prefix, in the order of the index, with the number of their documents
TermsFrom(prefix) ==
    LET idx == lastQuery.files[2]
        matching == SelectSeq(idx, LAMBDA e :
                        /\ Len(prefix) <= Len(e.chars)
                        /\ \A i \in 1..Len(prefix) : e.chars[i] = prefix[i])
    IN [i \in 1..Len(matching) |->
          [term |-> matching[i].term,
           count |-> Cardinality({matching[i].postings[j].docId :
                                     j \in 1..Len(matching[i].postings)})]]

\* suggestions is the beginning, of at most limit entries, of terms
FirstOf(suggestions, terms, limit) ==
    /\ Len(suggestions) = (IF Len(terms) < limit THEN Len(terms) ELSE limit)
    /\ suggestions = SubSeq(terms, 1, Len(suggestions))

\* C19 as stated: getSuggestions(q, limit) is [] when q has fewer than 2
\* characters; otherwise it is at most limit entries, the index terms that
\* start with the last token of q, in the order of the index, each with the
\* number of distinct documents that have a posting for the term.
C19_Suggestions ==
    lastQuery.op = "getSuggestions" =>
        LET words == tokenWords(lastQuery.query)
        IN IF Len(lastQuery.query) < MinQueryLength
           THEN lastQuery.suggestions = <<>>
           ELSE IF words = <<>> THEN lastQuery.suggestions = <<>>
           ELSE FirstOf(lastQuery.suggestions, TermsFrom(words[Len(words)]),
                        lastQuery.limit)

\* C19 amended: the same, the prefix being the lowercased q itself when q
\* has no token (a stop word, a word of at most 2 characters).
C19_SuggestionsOfPrefix ==
    lastQuery.op = "getSuggestions" =>
        LET words == tokenWords(lastQuery.query)
            prefix == IF words = <<>> THEN toLowerCase(lastQuery.query)
                      ELSE words[Len(words)]
        IN IF Len(lastQuery.query) < MinQueryLength
           THEN lastQuery.suggestions = <<>>
           ELSE FirstOf(lastQuery.suggestions, TermsFrom(prefix), lastQuery.limit)

\* getSuggestions("cri", 1) on an index that holds crime and crimes
C19_Witness ==
    /\ lastQuery.op = "getSuggestions"
    /\ lastQuery.query = <<"c", "r", "i">> /\ lastQuery.limit = 1
    /\ Len(TermsFrom(lastQuery.query)) = 2
    /\ lastQuery.suggestions = <<[term |-> "crime", count |-> 1]>>

\* getSuggestions("Crime BUR", 5) on an index of two documents with burglary
SuggestsLastToken ==
    /\ lastQuery.op = "getSuggestions"
    /\ Len(lastQuery.query) = 9
    /\ lastQuery.suggestions = <<[term |-> "burglary", count |-> 2]>>

\* C20: after every completed cache operation that changes the store (set, a
\* get that touches or lazily deletes an entry, cleanup, delete, clear) the
\* file holds the snapshot of the store, and loading the file gives the store
\* back, entry for entry and in the same order.
C20_SnapshotConsistency ==
    /\ disk = saveCache(cache)
    /\ loadCache(disk) = cache

\* a get has touched an entry a second after it was written, next to another
\* entry
C20_Witness ==
    /\ last.op = "get" /\ last.had
    /\ Len(cache) >= 2
    /\ \E i \in 1..Len(cache) :
          /\ cache[i].key = last.key
          /\ cache[i].lastAccessed > cache[i].timestamp
          /\ disk.members[i].value.lastAccessed = cache[i].lastAccessed

-----------------------------------------------------------------------------
(* Claims about the snapshot file                                          *)

\* the store that operation op on key leaves when its writes succeed, from
\* the store w.before at time t
StoreAfter(op, key, w, t) ==
    CASE op = "set" -> cacheSet(w.before, key, w.data, w.ttl, t)
      [] op = "get" -> cacheGetStore(w.before, key, t)
      [] op = "cleanup" -> cleanup(w.before, t)
      [] op = "delete" -> cacheDelete(w.before, key)
      [] op = "clear" -> <<>>
      [] OTHER -> w.before

\* C21: when the snapshot write fails during set, get, cleanup, delete or
\* clear, the operation raises nothing and leaves in memory the store that
\* it leaves when the write succeeds; a later get in the same process
\* returns the value that was set, although the file does not hold it.
C21_WriteFailure ==
    /\ (lastWrite.failed /\ lastWrite.seq = started) =>
          /\ ~lastWrite.raised
          /\ cache = StoreAfter(last.op, last.key, lastWrite, last.at)
    /\ (last.op = "get" /\ written[last.key].isSet /\ last.key \notin sizeEvicted)
          => last.ret = written[last.key].v

\* a get returns a value whose set could not write the file, and cannot
\* write it either
C21_Witness ==
    /\ last.op = "get" /\ lastWrite.failed /\ lastWrite.seq = started
    /\ written[last.key].isSet
    /\ last.ret = written[last.key].v
    /\ last.ret # JsNull
    /\ ~HasKey(loadCache(disk), last.key)
    /\ HasKey(cache, last.key)

\* C22: constructing the store when the snapshot is missing, unreadable or
\* not parseable never fails: the store starts empty, and a set followed by
\* a get of the key returns the value.
C22_StartupFallback ==
    /\ host.process # "failed"
    /\ (last.op = "construct" /\ last.ret # "json") => cache = <<>>
    /\ (last.op = "get" /\ written[last.key].isSet /\ last.key \notin sizeEvicted
           /\ host.process = "up")
          => last.ret = written[last.key].v

-----------------------------------------------------------------------------
(* More claims about the search engine                                     *)

\* C23: the index is what the last rebuildIndex() made of the store it read
\* (empty before the first and after one that raised): no get, set, cleanup,
\* delete or clear, no fetchWithCache or refreshCache, no search and no
\* getSuggestions changes it, so a search lists only documents that were
\* live at the last rebuild and a document fetched since is not found.
C23_IndexFrame ==
    /\ index = IF builtFrom.called /\ ~builtFrom.raised
               THEN buildIndex(builtFrom.store, builtFrom.at).index
               ELSE <<>>
    /\ (lastQuery.op = "search" /\ ~lastQuery.answer.raised) =>
          \A i \in 1..Len(lastQuery.answer.results) :
              /\ builtFrom.called
              /\ \E j \in 1..Len(LiveAtBuild) :
                    LiveAtBuild[j].key = lastQuery.answer.results[i].id

\* a search for burglary lists the crime document and not the planning
\* document, which has the word and was fetched after the rebuild
C23_Witness ==
    /\ lastQuery.op = "search" /\ ~lastQuery.answer.raised
    /\ lastQuery.query = Burglary
    /\ Len(lastQuery.answer.results) = 1
    /\ \E i \in 1..Len(LiveAtQuery) :
          /\ LiveAtQuery[i].key = PlanningUrl
          /\ \E w \in Range(TokensOf([cacheKey |-> PlanningUrl,
                                      data |-> LiveAtQuery[i].data])) :
                w = Burglary
    /\ \A i \in 1..Len(lastQuery.answer.results) :
          lastQuery.answer.results[i].id # PlanningUrl

\* the count of the posting of document docId for token in idx, 0 without one
CountIn(idx, token, docId) ==
    LET postings == SelectSeq(postingsOf(idx, token), LAMBDA p : p.docId = docId)
    IN IF postings = <<>> THEN 0 ELSE postings[1].count

\* the sum of the counts of document docId over the first n tokens
RECURSIVE ScoreOf(_, _, _, _)
ScoreOf(idx, tokens, n, docId) ==
    IF n = 0 THEN 0
    ELSE ScoreOf(idx, tokens, n - 1, docId) + CountIn(idx, tokens[n], docId)

ScoresThree ==
    /\ lastQuery.op = "search" /\ ~lastQuery.answer.raised
    /\ lastQuery.query = BurglaryCrimeQuery
    /\ \E i \in 1..Len(lastQuery.answer.results) :
          /\ lastQuery.answer.results[i].score = 3
          /\ CountIn(index, "crime", lastQuery.answer.results[i].id) = 2

-----------------------------------------------------------------------------
(* Claims about the categories of documents                                *)

\* word occurs in the characters of a key
HasWord(chars, word) ==
    \E i \in 0..(Len(chars) - Len(word)) :
        \A j \in 1..Len(word) : chars[i + j] = word[j]

\* the category of a cache key: the first of crime, planning and spending
\* that the key contains, else generic
CategoryOf(key) ==
    LET chars == keyChars(key)
    IN CASE HasWord(chars, <<"c", "r", "i", "m", "e">>) -> "crime"
         [] HasWord(chars, <<"p", "l", "a", "n", "n", "i", "n", "g">>) -> "planning"
         [] HasWord(chars, <<"s", "p", "e", "n", "d", "i", "n", "g">>) -> "spending"
         [] OTHER -> "generic"

\* the types stored in the postings of a document in index idx
TypesIn(idx, docId) ==
    UNION {{idx[t].postings[p].type :
               p \in {q \in 1..Len(idx[t].postings) :
                         idx[t].postings[q].docId = docId}} :
           t \in 1..Len(idx)}

\* C25: every posting of the index carries the category of its document's
\* key (crime, else planning, else spending, else generic), and every result
\* of a search reports that same category, which is the type stored in the
\* postings of its document
C25_Classification ==
    /\ \A t \in 1..Len(index) : \A p \in 1..Len(index[t].postings) :
          index[t].postings[p].type = CategoryOf(index[t].postings[p].docId)
    /\ (lastQuery.op = "search" /\ ~lastQuery.answer.raised) =>
          \A i \in 1..Len(lastQuery.answer.results) :
              LET r == lastQuery.answer.results[i]
              IN /\ r.type = CategoryOf(r.id)
                 /\ TypesIn(lastQuery.files[2], r.id) = {r.type}

\* a search has answered a spending document, found by a posting of type
\* spending
C25_Witness ==
    /\ lastQuery.op = "search" /\ ~lastQuery.answer.raised
    /\ \E i \in 1..Len(lastQuery.answer.results) :
          /\ lastQuery.answer.results[i].type = "spending"
          /\ TypesIn(lastQuery.files[2], lastQuery.answer.results[i].id)
                = {"spending"}

\* a search has answered a document of no category
FindsGeneric ==
    /\ lastQuery.op = "search" /\ ~lastQuery.answer.raised
    /\ \E i \in 1..Len(lastQuery.answer.results) :
          lastQuery.answer.results[i].type = "generic"

\* the keys under which fetchCouncilSpending stores its responses
CouncilSpendingKeys ==
    {generateKey(SpendingUrl, spendingQuery(in)) : in \in SourceSpendingInputs}

\* the category of the fetcher that stores under a key
SourceOf(key) ==
    CASE key \in CrimeKeys -> "crime"
      [] key \in PlanningKeys -> "planning"
      [] key \in CouncilSpendingKeys -> "spending"

\* the tokens of the text fields of a payload that belong to a category
FieldTokens(data, category) ==
    LET words == tokenWords(joinTexts(extractSearchableText(parsed(data), category).texts))
    IN {Concat(words[i]) : i \in 1..Len(words)}

\* C26: after rebuildIndex every live entry stored by a fetcher has postings
\* of the fetcher's category only, under every token of the text fields of
\* that category
C26_SourceCategory ==
    (builtFrom.called /\ ~builtFrom.raised) =>
        \A i \in 1..Len(LiveAtBuild) :
            LET e == LiveAtBuild[i]
            IN e.key \in CrimeKeys \cup PlanningKeys \cup CouncilSpendingKeys =>
                  /\ TypesIn(index, e.key) \subseteq {SourceOf(e.key)}
                  /\ \A token \in FieldTokens(e.data, SourceOf(e.key)) :
                        \E p \in 1..Len(postingsOf(index, token)) :
                            postingsOf(index, token)[p].docId = e.key

-----------------------------------------------------------------------------
(* Claims about the category filter                                        *)

\* the documents with a posting of a category under one of the tokens
MatchesOf(idx, tokens, category) ==
    UNION {{idx[t].postings[p].docId :
               p \in {q \in 1..Len(idx[t].postings) :
                         idx[t].postings[q].type = category}} :
           t \in {u \in 1..Len(idx) :
                     \E i \in 1..Len(tokens) : idx[u].term = tokens[i]}}

\* C27: a search with a category answers results of that type only, all of
\* them documents with a posting of that category under a token of the
\* query, and total is the number of those documents: no other document is
\* ranked or counted
C27_CategoryFilter ==
    (/\ lastQuery.op = "search" /\ ~lastQuery.answer.raised
     /\ lastQuery.options.type # JsNull /\ lastQuery.answer.tokens # <<>>) =>
        LET answer == lastQuery.answer
            matching == MatchesOf(lastQuery.files[2], answer.tokens,
                                  lastQuery.options.type)
        IN /\ \A i \in 1..Len(answer.results) :
                 /\ answer.results[i].type = lastQuery.options.type
                 /\ answer.results[i].id \in matching
           /\ answer.total = Cardinality(matching)
           /\ {answer.ranking[i].docId : i \in 1..Len(answer.ranking)} = matching

\* a search for crime has answered the crime document and left out a
\* planning document that the same query finds without a category
C27_Witness ==
    /\ lastQuery.op = "search" /\ ~lastQuery.answer.raised
    /\ lastQuery.options.type = "crime"
    /\ lastQuery.answer.total = 1
    /\ MatchesOf(lastQuery.files[2], lastQuery.answer.tokens, "planning") # {}

-----------------------------------------------------------------------------
(* Claims about the rate window                                            *)

\* C28 (as stated): requestCount is 0 whenever now - windowStart > windowSize
C28_WindowReset == (now - windowStart > windowSize) => requestCount = 0

\* the count a check is decided against: 0 when the window of windowStart had
\* elapsed at the time of the check, else the requestCount it found
CountedBy(check) ==
    IF check.at - check.windowStart > windowSize THEN 0 ELSE check.requestCount

\* C28: the reset is made by the next run of enforceRateLimit, not by the
\* clock: a check made after the window has elapsed is decided against the
\* count 0, is admitted and starts a window at its own time; a check inside
\* the window is decided against requestCount and leaves windowStart alone
C28_ResetAtCheck ==
    lastCheck.checked =>
        LET elapsed == lastCheck.at - lastCheck.windowStart > windowSize
        IN /\ lastCheck.admitted = (CountedBy(lastCheck) < API_RATE_LIMIT)
           /\ windowStart = IF elapsed THEN lastCheck.at ELSE lastCheck.windowStart
           /\ requestCount = CountedBy(lastCheck) + (IF lastCheck.admitted THEN 1 ELSE 0)
           /\ elapsed => (lastCheck.admitted /\ requestCount = 1)

\* a check found a full count in a window that had elapsed, and was admitted
C28_Witness ==
    /\ lastCheck.checked /\ lastCheck.admitted
    /\ lastCheck.at - lastCheck.windowStart > windowSize
    /\ lastCheck.requestCount = API_RATE_LIMIT

\* C29: a rejected check reports a wait time between 0 and windowSize, and
\* the next check, made exactly that wait time after the rejection, is
\* admitted
C29_RetryAfter ==
    /\ (lastCheck.checked /\ ~lastCheck.admitted) =>
          /\ lastCheck.waitTime >= 0 /\ lastCheck.waitTime <= windowSize
          /\ lastCheck.seconds * MsPerSecond >= lastCheck.waitTime
          /\ lastCheck.seconds * MsPerSecond <= windowSize
    /\ (/\ lastCheck.checked /\ lastCheck.before.rejected
        /\ lastCheck.at = lastCheck.before.at + lastCheck.before.waitTime) =>
          lastCheck.admitted

\* a check was rejected with a wait time between 0 and windowSize
RejectedWithWait ==
    /\ lastCheck.checked /\ ~lastCheck.admitted
    /\ lastCheck.waitTime > 0 /\ lastCheck.waitTime < windowSize

\* the wait time of a rejection, alone
WaitTimeBounds ==
    (lastCheck.checked /\ ~lastCheck.admitted) =>
        /\ lastCheck.waitTime >= 0 /\ lastCheck.waitTime <= windowSize
        /\ lastCheck.seconds * MsPerSecond >= lastCheck.waitTime

\* a check rejected 30 s before the end of the window was repeated 30 s
\* later and rejected again
RejectedOnTime ==
    /\ lastCheck.checked /\ lastCheck.before.rejected
    /\ lastCheck.before.waitTime > 0
    /\ lastCheck.at = lastCheck.before.at + lastCheck.before.waitTime
    /\ ~lastCheck.admitted /\ lastCheck.waitTime = 0

\* the calls in flight, each admitted and not yet answered
InFlight == {c \in CallIds : calls[c].pc = "awaiting"}

\* C30: requestCount stays between 0 and the limit whatever the calls in
\* flight; an admitted check leaves requestCount one above the count it was
\* decided against, also for a second miss of a key already in flight; a
\* rejected check leaves requestCount and windowStart as it found them,
\* apart from a reset that was due
C30_CounterBound ==
    /\ requestCount >= 0 /\ requestCount <= API_RATE_LIMIT
    /\ lastCheck.checked =>
          LET due == lastCheck.at - lastCheck.windowStart > windowSize
          IN IF lastCheck.admitted
             THEN requestCount = (IF due THEN 0 ELSE lastCheck.requestCount) + 1
             ELSE /\ requestCount = (IF due THEN 0 ELSE lastCheck.requestCount)
                  /\ windowStart = (IF due THEN lastCheck.at
                                    ELSE lastCheck.windowStart)

\* two misses of one key are in flight together and each has been counted
C30_Witness ==
    /\ Cardinality(InFlight) = 2
    /\ \A c, d \in InFlight : calls[c].key = calls[d].key
    /\ requestCount = 2
    /\ lastCheck.admitted /\ lastCheck.requestCount = 1

\* a call was rejected while another was in flight, and left the window as
\* it was
RejectedBesideOne ==
    /\ Cardinality(InFlight) = 1
    /\ lastCheck.checked /\ ~lastCheck.admitted
    /\ requestCount = lastCheck.requestCount
    /\ windowStart = lastCheck.windowStart

-----------------------------------------------------------------------------
(* Claims about snippets                                                   *)

\* the snippet without its trailing ellipsis
SnippetBody(chars) ==
    IF Len(chars) >= 3 /\ SubSeq(chars, Len(chars) - 2, Len(chars)) = <<".", ".", ".">>
    THEN SubSeq(chars, 1, Len(chars) - 3) ELSE chars

\* C31: a snippet without its trailing ellipsis has at most 200 characters,
\* and it has the ellipsis exactly when its window ends before the end of the
\* text of the payload
C31_SnippetLength ==
    (lastQuery.op = "generateSnippet" /\ lastQuery.snippet # JsNull) =>
        LET text == toLowerCase(stringify(lastQuery.data))
            body == SnippetBody(lastQuery.chars)
            atEnd == SubSeq(text, Len(text) - Len(body) + 1, Len(text)) = body
        IN /\ Len(body) <= 200
           /\ (Len(body) < Len(lastQuery.chars)) = ~atEnd

\* the ellipsis of a snippet, alone
SnippetEllipsis ==
    (lastQuery.op = "generateSnippet" /\ lastQuery.snippet # JsNull) =>
        LET text == toLowerCase(stringify(lastQuery.data))
            body == SnippetBody(lastQuery.chars)
            atEnd == SubSeq(text, Len(text) - Len(body) + 1, Len(text)) = body
        IN /\ Len(body) <= SnippetLead + SnippetMaxLength
           /\ (Len(body) < Len(lastQuery.chars)) = ~atEnd

\* a snippet of 250 characters and an ellipsis
LongSnippet ==
    /\ lastQuery.op = "generateSnippet" /\ lastQuery.snippet # JsNull
    /\ Len(lastQuery.chars) = SnippetLead + SnippetMaxLength + 3

-----------------------------------------------------------------------------
(* Claims about cache keys                                                 *)

\* the names and values of parameters, whatever their order
PairsOf(params) == {params[i] : i \in 1..Len(params)}

\* the key of the parameters lat, lng and date of the model
LatLngDateKey == "https://example.org/api/items?date=2024-01&lat=51.5&lng=-0.1"

\* C32: the key of a call is the key of its parameters inserted in any
\* other order, and a proxied call and a refresh with the same url and
\* parameters read, delete and write the entry under that one key
C32_KeyDeterminism ==
    /\ \A r \in CallRecords : r.pc # "idle" =>
          /\ \A params \in Orders(r.params) : generateKey(r.url, params) = r.key
          /\ PairsOf(r.params) = PairsOf(LatLngDate) => r.key = LatLngDateKey
    /\ \A e \in EntriesOf(cache) :
          e.key \in {LatLngDateKey, generateKey(ProxyUrl, OtherDate)}
    /\ lastCall.outcome = "fetched" => lastCall.stored.key = lastCall.call.key

\* a refresh found live the entry that a call with the same parameters,
\* inserted in another order, had fetched
C32_Witness ==
    /\ lastCall.call.op = "proxyRequest" /\ lastCall.outcome = "fetched"
    /\ \E c \in CallIds :
          /\ calls[c].pc = "awaiting" /\ calls[c].op = "refreshCache"
          /\ calls[c].params # lastCall.call.params
          /\ PairsOf(calls[c].params) = PairsOf(lastCall.call.params)
          /\ calls[c].pre = "live"
          /\ calls[c].key = lastCall.stored.key
          /\ ~HasKey(cache, calls[c].key)

-----------------------------------------------------------------------------
(* Claims about what search leaves alone                                   *)

\* C33: search answers every query with a result object; a query whose
\* tokens all have no postings in the index answers total 0 and results [],
\* also when a token is the name of an inherited property
C33_UnindexedToken ==
    lastQuery.op = "search" =>
        /\ ~lastQuery.answer.raised
        /\ LET words == tokenWords(lastQuery.query)
           IN (\A i \in 1..Len(words) :
                  \A t \in 1..Len(lastQuery.files[2]) :
                      lastQuery.files[2][t].term # Concat(words[i])) =>
                 /\ lastQuery.answer.total = 0
                 /\ lastQuery.answer.results = <<>>

\* queries of ordinary tokens without postings are answered as stated
UnindexedOrdinaryToken ==
    (lastQuery.op = "search" /\ lastQuery.query # toLowerCase(Constructor)) =>
        /\ ~lastQuery.answer.raised
        /\ LET words == tokenWords(lastQuery.query)
           IN (\A i \in 1..Len(words) :
                  \A t \in 1..Len(lastQuery.files[2]) :
                      lastQuery.files[2][t].term # Concat(words[i])) =>
                 /\ lastQuery.answer.total = 0
                 /\ lastQuery.answer.results = <<>>

\* a search for burglary on an empty index answered nothing
FindsNothing ==
    /\ lastQuery.op = "search" /\ lastQuery.query = Burglary
    /\ lastQuery.files[2] = <<>>
    /\ ~lastQuery.answer.raised /\ lastQuery.answer.total = 0

\* C34: search and getSuggestions leave the store and its snapshot as they
\* found them: no lastAccessed is updated, no expired entry is deleted and
\* nothing is written, so the next eviction removes the entries it would
\* have removed without them
C34_ReadOnly ==
    (lastQuery.op \in {"search", "getSuggestions"} /\ lastQuery.seq = started) =>
        /\ cache = lastQuery.store
        /\ disk = lastQuery.files[1]
        /\ SortByLastAccessed(cache) = SortByLastAccessed(lastQuery.store)

\* a search answered a document that was last accessed before, beside an
\* entry that had expired, and both are in the store as they were
C34_Witness ==
    /\ JustSearched /\ ~lastQuery.answer.raised
    /\ \E i \in 1..Len(lastQuery.answer.results) : \E j \in 1..Len(cache) :
          /\ cache[j].key = lastQuery.answer.results[i].id
          /\ cache[j].lastAccessed < lastQuery.at
    /\ \E j \in 1..Len(cache) :
          lastQuery.at - cache[j].timestamp > cache[j].ttl * MsPerSecond

\* suggestions were given beside an entry that had expired
SuggestsBesideExpired ==
    /\ lastQuery.op = "getSuggestions" /\ lastQuery.seq = started
    /\ lastQuery.suggestions # <<>>
    /\ \E j \in 1..Len(cache) :
          lastQuery.at - cache[j].timestamp > cache[j].ttl * MsPerSecond

-----------------------------------------------------------------------------
(* Claims about calls that overlap                                         *)

\* a forced call fell back to the stale value after its request failed
FellBack ==
    /\ lastCall.outcome = "stale"
    /\ lastCall.call.forceRefresh /\ lastCall.call.allowStale
    /\ lastCall.err = "UpstreamFetchFailed"

\* the step in which a call in flight ends with the stale value
FallsBack ==
    /\ \E c \in CallIds : calls[c].pc = "awaiting" /\ calls'[c].pc = "idle"
    /\ lastCall'.outcome = "stale"

\* C35: a fetchWithCache call with forceRefresh and allowStale that falls
\* back after its request failed returns the payload that was live at the key
\* when the call started, whatever other requests did to the key while it
\* was suspended, and the fallback writes nothing to the store or its snapshot
C35_StaleValue ==
    /\ [](FellBack =>
            /\ lastCall.call.pre = "live"
            /\ lastCall.ret = lastCall.call.preData
            /\ lastCall.ret = lastCall.call.cachedData)
    /\ [][FallsBack => (cache' = cache /\ disk' = disk)]_vars

\* the call fell back while the key held a payload written during its suspension
C35_Witness ==
    /\ FellBack
    /\ lastCall.stored # NoEntry
    /\ lastCall.stored.data # lastCall.ret

\* the call fell back after the key was deleted or the store cleared
FellBackAfterRemoval == FellBack /\ lastCall.stored = NoEntry

\* a refreshCache call ended with an error of its request or of the limiter
RefreshFailed ==
    /\ lastCall.call.op = "refreshCache"
    /\ lastCall.err \in {"UpstreamFetchFailed", "RateLimited"}

\* C36 as stated: after a refreshCache whose request failed or was refused by
\* the limiter, the error has reached the caller and the key has no entry
C36_FailedRefresh ==
    RefreshFailed =>
        /\ lastCall.outcome = "error"
        /\ lastCall.ret = JsUndefined
        /\ lastCall.stored = NoEntry

\* the step in which a refreshCache call ends with an error
RefreshFails ==
    /\ lastCall'.call.op = "refreshCache"
    /\ lastCall'.err \in {"UpstreamFetchFailed", "RateLimited"}
    /\ \/ started' = started + 1
       \/ \E c \in CallIds : calls[c].pc = "awaiting" /\ calls'[c].pc = "idle"
                             /\ calls[c].op = "refreshCache"

\* C36: a refreshCache whose request fails or is refused by the limiter
\* passes the error on and returns no stale value; the entry it found was
\* deleted before the request, the failing step writes no entry, and a
\* refusal by the limiter leaves the key without an entry: the key only
\* holds what another request stored while the refresh was suspended
C36_FailureWritesNothing ==
    /\ [](RefreshFailed =>
            /\ lastCall.outcome = "error"
            /\ lastCall.ret = JsUndefined
            /\ lastCall.call.removed
            /\ lastCall.call.cachedData = JsNull
            /\ lastCall.call.rejected => lastCall.stored = NoEntry)
    /\ [][RefreshFails =>
            \A i \in 1..Len(cache') : \E j \in 1..Len(cache) : cache'[i] = cache[j]]_vars

\* the refresh of a live key failed and the key holds what another request
\* stored in between
C36_Witness ==
    /\ RefreshFailed
    /\ lastCall.call.pre = "live"
    /\ lastCall.err = "UpstreamFetchFailed"
    /\ lastCall.stored # NoEntry

\* the refresh of a live key was refused by the limiter
RefreshRefused ==
    /\ RefreshFailed
    /\ lastCall.call.pre = "live"
    /\ lastCall.err = "RateLimited"

\* the refresh of a live key failed and the key is gone
RefreshLeftNothing ==
    /\ RefreshFailed
    /\ lastCall.call.pre = "live"
    /\ lastCall.err = "UpstreamFetchFailed"
    /\ lastCall.stored = NoEntry

-----------------------------------------------------------------------------
(* Claims about accounts                                                   *)

\* two createUser calls that were awaiting their hash at the same time and
\* both returned a user
BothCreated(r1, r2) ==
    /\ r1 \in authObs.created /\ r2 \in authObs.created
    /\ r2.nth \in r1.overlapped

\* C37: of two createUser calls that overlap and both succeed, both users
\* are in the user store afterwards, and no two stored users share an email
C37_Registration ==
    /\ \A r1, r2 \in authObs.created :
          BothCreated(r1, r2) => HasEmail(users, r1.email) /\ HasEmail(users, r2.email)
    /\ \A i, j \in 1..Len(users) : users[i].email = users[j].email => i = j

\* no two stored users share an email address
UniqueEmails ==
    \A i, j \in 1..Len(users) : users[i].email = users[j].email => i = j

\* two overlapping registrations of different emails both succeeded
OverlappingRegistrations ==
    \E r1, r2 \in authObs.created : BothCreated(r1, r2) /\ r1.email # r2.email

\* two overlapping registrations of one email both succeeded
SameEmailTwice ==
    \E r1, r2 \in authObs.created : BothCreated(r1, r2) /\ r1.email = r2.email

\* every usage-tracked request adds one to searchesUsed before the check and
\* is answered 429, its handler not run, when the sum exceeds the limit
IncrementThenCheck ==
    authObs.last.op = "tracked" =>
        /\ authObs.last.after = authObs.last.before + 1
        /\ authObs.last.after > authObs.last.limit =>
              authObs.last.status = 429 /\ ~authObs.last.ran
        /\ authObs.last.after <= authObs.last.limit => authObs.last.ran

\* C38: for a user with search limit L the handlers of the usage-tracked
\* routes run at most L times in total; every request adds one to
\* searchesUsed before the check, and a request that finds searchesUsed > L
\* after that is answered 429 without its handler being run
C38_UsageQuota ==
    /\ \A id \in DOMAIN authObs.runs : authObs.runs[id] <= SearchLimit
    /\ IncrementThenCheck

\* a request was answered 429 after the user's handlers ran L times
QuotaRefused ==
    /\ authObs.last.op = "tracked" /\ authObs.last.status = 429
    /\ RunsOf(authObs.last.id) = SearchLimit

\* a registration that was awaiting its hash wrote the user file while the
\* user had used searches, and the user's count is back at the value read
CountWrittenBack ==
    /\ authObs.last.op = "createUser" /\ authObs.last.ok
    /\ \E i \in 1..Len(users) : users[i].searchesUsed < RunsOf(users[i].id)

\* the operations that use a token
TokenUses == {"verifyEmailToken", "verifyPasswordResetToken", "resetPassword"}

\* C39 as stated: verifyEmailToken(t) fails after a verifyEmailToken(t) that
\* succeeded; resetPassword(t, p') and verifyPasswordResetToken(t) fail after
\* a resetPassword(t, p) that succeeded; and a token fails after a newer
\* token of its kind was issued for its user
C39_SingleUse ==
    authObs.last.ok =>
        /\ authObs.last.op = "verifyEmailToken" => ~authObs.last.verifiedBefore
        /\ authObs.last.op \in {"verifyPasswordResetToken", "resetPassword"} =>
              ~authObs.last.resetBefore
        /\ authObs.last.op \in TokenUses => ~authObs.last.replacedBefore

\* C39: a token that was used by a successful verifyEmailToken or
\* resetPassword, or replaced by a newer token of its kind for its user, is
\* refused by every later verifyEmailToken, verifyPasswordResetToken and
\* resetPassword, until the same token is issued again (jwt.sign gives the
\* same token for the same user, email, kind and second)
C39_SingleUseUntilIssuedAgain ==
    (authObs.last.ok /\ authObs.last.op \in TokenUses) => ~authObs.last.spentBefore

\* a token that had been used is refused
C39_Witness ==
    /\ authObs.last.op \in TokenUses
    /\ ~authObs.last.ok
    /\ authObs.last.spentBefore
    /\ authObs.last.verifiedBefore \/ authObs.last.resetBefore

\* a token that had been replaced by a newer one is refused
ReplacedRefused ==
    /\ authObs.last.op \in TokenUses
    /\ ~authObs.last.ok
    /\ authObs.last.replacedBefore

\* a password was reset with a token, and the token is refused afterwards
ResetThenRefused ==
    /\ authObs.last.op \in {"verifyPasswordResetToken", "resetPassword"}
    /\ ~authObs.last.ok
    /\ authObs.last.resetBefore

\* a token that had been used was issued again and accepted
UsedAgain ==
    /\ authObs.last.ok /\ authObs.last.op \in TokenUses
    /\ authObs.last.verifiedBefore \/ authObs.last.resetBefore

\* C40: verifyEmailToken refuses a token issued by createPasswordResetToken
\* and leaves it in the token file, so a user's email is marked verified only
\* for a token of createVerificationToken; and createVerificationToken leaves
\* the user's pending password-reset token in the token file
C40_KindSeparation ==
    /\ (/\ authObs.last.op = "verifyEmailToken"
        /\ authObs.last.token.payload.type = "password-reset") =>
          /\ ~authObs.last.ok
          /\ authObs.last.storedBefore => authObs.last.storedAfter
    /\ authObs.last.op = "createVerificationToken" => authObs.last.resetsKept

\* verifyEmailToken accepted a password-reset token and removed it
ResetTokenVerifiesEmail ==
    /\ authObs.last.op = "verifyEmailToken" /\ authObs.last.ok
    /\ authObs.last.token.payload.type = "password-reset"
    /\ authObs.last.storedBefore /\ ~authObs.last.storedAfter
    /\ findUserById(users, authObs.last.id).emailVerified

\* a verification token was issued and the user's reset token is gone
ResetTokenDropped ==
    /\ authObs.last.op = "createVerificationToken"
    /\ ~authObs.last.resetsKept

\* verifyPasswordResetToken refuses a verification token that is in the file
KindChecked ==
    (/\ authObs.last.op \in {"verifyPasswordResetToken", "resetPassword"}
     /\ authObs.last.token.payload.type # "password-reset") => ~authObs.last.ok

\* issuing a password-reset token leaves the user's verification token in place
VerificationKept ==
    /\ authObs.last.op = "createPasswordResetToken"
    /\ \E i \in 1..Len(verificationTokens) :
          verificationTokens[i].type = JsUndefined

=============================================================================
